---- MODULE Spec2Model ----
(***************************************************************************)
(* Footnote linking engine of bible-to-markdown.                           *)
(*                                                                         *)
(* MarkdownGenerator.processFootnoteContent (services/markdown.ts) is the  *)
(* linkContent of the specification, FootnotesParser.parseFootnotes        *)
(* (services/footnotes.ts) its parseFootnotes.  Strings are TLA+ strings,  *)
(* indexed from 0 as in the source; every regular expression of the source *)
(* is an operator that scans the string the way the expression does.       *)
(***************************************************************************)
EXTENDS Integers, Sequences, FiniteSets, TLC

(***************************************************************************)
(* JavaScript string primitives                                            *)
(***************************************************************************)

\* s.charAt(i): the empty string outside the string
CharAt(s, i) == IF i >= 0 /\ i < Len(s) THEN SubSeq(s, i + 1, i + 1) ELSE ""

\* s.substring(a, b) for 0 <= a, b
Substring(s, a, b) ==
  LET hi == IF b > Len(s) THEN Len(s) ELSE b
  IN  IF a >= hi THEN "" ELSE SubSeq(s, a + 1, hi)

\* s.substring(a)
SubstringFrom(s, a) == Substring(s, a, Len(s))

\* s.startsWith(p, i)
StartsWithAt(s, p, i) ==
  i >= 0 /\ i + Len(p) <= Len(s) /\ SubSeq(s, i + 1, i + Len(p)) = p

\* s.indexOf(p, i) for i >= 0: the least k >= i where p occurs, -1 when
\* there is none
IndexOfFrom(s, p, i) ==
  LET from == IF i > Len(s) THEN Len(s) ELSE i
      at   == {k \in from..(Len(s) - Len(p)) : StartsWithAt(s, p, k)}
  IN  IF at = {} THEN -1 ELSE CHOOSE k \in at : \A j \in at : k <= j

\* s.indexOf(p)
IndexOf(s, p) == IndexOfFrom(s, p, 0)

\* s.lastIndexOf(p, i): the greatest k <= i where p occurs, -1 for none
LastIndexOfFrom(s, p, i) ==
  LET at == {k \in 0..i : StartsWithAt(s, p, k)}
  IN  IF at = {} THEN -1 ELSE CHOOSE k \in at : \A j \in at : k >= j

\* s.lastIndexOf(p)
LastIndexOf(s, p) == LastIndexOfFrom(s, p, Len(s) - Len(p))

RECURSIVE NumToStr(_)
\* `${n}` for a non-negative integer n
NumToStr(n) ==
  LET d == SubSeq("0123456789", (n % 10) + 1, (n % 10) + 1)
  IN  IF n < 10 THEN d ELSE NumToStr(n \div 10) \o d

(***************************************************************************)
(* Character classes of the regular expressions (no u flag: ASCII)         *)
(***************************************************************************)

Digits == {"0", "1", "2", "3", "4", "5", "6", "7", "8", "9"}

Letters ==
  {"a", "b", "c", "d", "e", "f", "g", "h", "i", "j", "k", "l", "m",
   "n", "o", "p", "q", "r", "s", "t", "u", "v", "w", "x", "y", "z",
   "A", "B", "C", "D", "E", "F", "G", "H", "I", "J", "K", "L", "M",
   "N", "O", "P", "Q", "R", "S", "T", "U", "V", "W", "X", "Y", "Z"}

\* \d
IsDigit(c) == c \in Digits

\* [A-Za-z]
IsLetter(c) == c \in Letters

\* \w
IsWordChar(c) == c \in Letters \cup Digits \cup {"_"}

\* \s (the whitespace the inputs can hold)
IsSpace(c) == c \in {" ", "\t", "\n", "\r"}

\* \b at position i of s: exactly one side is a word character
IsWordBoundary(s, i) == IsWordChar(CharAt(s, i - 1)) /= IsWordChar(CharAt(s, i))

RECURSIVE DigitsEnd(_, _)
\* end of the maximal run \d* that starts at i
DigitsEnd(s, i) == IF IsDigit(CharAt(s, i)) THEN DigitsEnd(s, i + 1) ELSE i

RECURSIVE WordEnd(_, _)
\* end of the maximal run \w* that starts at i
WordEnd(s, i) == IF IsWordChar(CharAt(s, i)) THEN WordEnd(s, i + 1) ELSE i

RECURSIVE SpaceEnd(_, _)
\* end of the maximal run \s* that starts at i
SpaceEnd(s, i) == IF IsSpace(CharAt(s, i)) THEN SpaceEnd(s, i + 1) ELSE i

RECURSIVE LettersEnd(_, _)
\* end of the maximal run [A-Za-z]* that starts at i
LettersEnd(s, i) == IF IsLetter(CharAt(s, i)) THEN LettersEnd(s, i + 1) ELSE i

(***************************************************************************)
(* expandBookCode: bookMap[code] || code                                   *)
(***************************************************************************)

bookMap ==
  [Mt |-> "Matthew", Mk |-> "Mark", Lk |-> "Luke", Lu |-> "Luke",
   Jn |-> "John", Ac |-> "Acts", Ro |-> "Romans",
   Ga |-> "Galatians", Eph |-> "Ephesians", Php |-> "Philippians",
   Col |-> "Colossians", Tit |-> "Titus", Phm |-> "Philemon",
   Heb |-> "Hebrews", Jas |-> "James", Jud |-> "Jude", Re |-> "Revelation",
   Ge |-> "Genesis", Ex |-> "Exodus", Le |-> "Leviticus", Nu |-> "Numbers",
   De |-> "Deuteronomy", Jos |-> "Joshua", Jdg |-> "Judges", Ru |-> "Ruth",
   Ezr |-> "Ezra", Ne |-> "Nehemiah", Es |-> "Esther", Job |-> "Job",
   Ps |-> "Psalms", Pr |-> "Proverbs", Ec |-> "Ecclesiastes",
   So |-> "Song of Solomon", Is |-> "Isaiah", Jer |-> "Jeremiah",
   La |-> "Lamentations", Eze |-> "Ezekiel", Da |-> "Daniel", Ho |-> "Hosea",
   Joe |-> "Joel", Am |-> "Amos", Ob |-> "Obadiah", Jon |-> "Jonah",
   Mic |-> "Micah", Na |-> "Nahum", Hab |-> "Habakkuk", Zep |-> "Zephaniah",
   Hag |-> "Haggai", Zec |-> "Zechariah", Mal |-> "Malachi"]
  @@ ("1Co" :> "1 Corinthians") @@ ("2Co" :> "2 Corinthians")
  @@ ("1Th" :> "1 Thessalonians") @@ ("2Th" :> "2 Thessalonians")
  @@ ("1Ti" :> "1 Timothy") @@ ("2Ti" :> "2 Timothy")
  @@ ("1Pe" :> "1 Peter") @@ ("2Pe" :> "2 Peter")
  @@ ("1Jn" :> "1 John") @@ ("2Jn" :> "2 John") @@ ("3Jn" :> "3 John")
  @@ ("1Sa" :> "1 Samuel") @@ ("2Sa" :> "2 Samuel")
  @@ ("1Ki" :> "1 Kings") @@ ("2Ki" :> "2 Kings")
  @@ ("1Ch" :> "1 Chronicles") @@ ("2Ch" :> "2 Chronicles")

\* The names an object literal inherits from Object.prototype: bookMap[code]
\* finds them although the literal does not list them
ObjectPrototype ==
  {"constructor", "hasOwnProperty", "isPrototypeOf", "propertyIsEnumerable",
   "toLocaleString", "toString", "valueOf", "__proto__", "__defineGetter__",
   "__defineSetter__", "__lookupGetter__", "__lookupSetter__"}

\* The value of an inherited property, which is no string: a built-in
\* function, or Object.prototype itself for __proto__.  The value is kept
\* as the text a template literal turns it into, which no book name and no
\* \w+ code equals.
inherited(name) ==
  IF name = "__proto__" THEN "[object Object]"
  ELSE "function " \o (IF name = "constructor" THEN "Object" ELSE name)
       \o "() { [native code] }"

\* The values are all truthy, so || code applies to a missing property only
expandBookCode(code) ==
  IF code \in DOMAIN bookMap THEN bookMap[code]
  ELSE IF code \in ObjectPrototype THEN inherited(code)
  ELSE code

(***************************************************************************)
(* Step 1: explicit tags                                                   *)
(*   /<data ref="Bible:([^"]+)">([^<]+)<\/data>/g                          *)
(***************************************************************************)

DataOpen == "<data ref=\"Bible:"

DataClose == "</data>"

\* The match of the tag expression that starts at i, if there is one: the
\* greedy [^"]+ runs to the next quote, which "> must follow; the greedy
\* [^<]+ runs to the next <, where </data> must stand.
DataTagAt(s, i) ==
  LET a  == i + Len(DataOpen)
      q  == IndexOfFrom(s, "\"", a)
      d  == q + 2
      lt == IndexOfFrom(s, "<", d)
      ok == /\ StartsWithAt(s, DataOpen, i)
            /\ q > a
            /\ CharAt(s, q + 1) = ">"
            /\ lt > d
            /\ StartsWithAt(s, DataClose, lt)
  IN  IF ok
      THEN [ok |-> TRUE, ref |-> Substring(s, a, q),
            display |-> Substring(s, d, lt), end |-> lt + Len(DataClose)]
      ELSE [ok |-> FALSE, ref |-> "", display |-> "", end |-> i]

\* ref.match(/^(\w+)\s+(\d+):(\d+)(?:-(\d+))?$/)
refMatch(ref) ==
  LET w  == WordEnd(ref, 0)
      sp == SpaceEnd(ref, w)
      c  == DigitsEnd(ref, sp)
      v  == DigitsEnd(ref, c + 1)
      e  == DigitsEnd(ref, v + 1)
      head == w > 0 /\ sp > w /\ c > sp /\ CharAt(ref, c) = ":" /\ v > c + 1
      plain == head /\ v = Len(ref)
      range == head /\ CharAt(ref, v) = "-" /\ e > v + 1 /\ e = Len(ref)
  IN  [ok |-> plain \/ range,
       bookCode |-> Substring(ref, 0, w),
       chapterNum |-> Substring(ref, sp, c),
       verse |-> Substring(ref, c + 1, v),
       hasEnd |-> range,
       endVerse |-> IF range THEN Substring(ref, v + 1, e) ELSE ""]

\* The callback of the step 1 replace
DataRefReplacement(ref, display) ==
  LET m == refMatch(ref)
  IN  IF m.ok
      THEN "[[" \o expandBookCode(m.bookCode) \o " " \o m.chapterNum \o "#"
                \o m.verse \o "|" \o display \o "]]"
      ELSE display

RECURSIVE ReplaceDataRefsFrom(_, _)
ReplaceDataRefsFrom(s, i) ==
  IF i >= Len(s) THEN ""
  ELSE LET t == DataTagAt(s, i)
       IN  IF t.ok
           THEN DataRefReplacement(t.ref, t.display) \o ReplaceDataRefsFrom(s, t.end)
           ELSE CharAt(s, i) \o ReplaceDataRefsFrom(s, i + 1)

\* processed.replace(/<data ...>/g, callback)
ReplaceDataRefs(s) == ReplaceDataRefsFrom(s, 0)

(***************************************************************************)
(* Step 2: processed.replace(/<[^>]+>/g, '')                               *)
(***************************************************************************)

RECURSIVE StripTagsFrom(_, _)
StripTagsFrom(s, i) ==
  IF i >= Len(s) THEN ""
  ELSE LET gt == IndexOfFrom(s, ">", i + 1)
       IN  IF CharAt(s, i) = "<" /\ gt >= i + 2
           THEN StripTagsFrom(s, gt + 1)
           ELSE CharAt(s, i) \o StripTagsFrom(s, i + 1)

StripTags(s) == StripTagsFrom(s, 0)

(***************************************************************************)
(* Step 3: reference-driven linking                                        *)
(***************************************************************************)

\* The characters display.replace(/[.*+?^${}()|[\]\\]/g, '\\$&') escapes
RegExpSpecial ==
  {".", "*", "+", "?", "^", "$", "{", "}", "(", ")", "|", "[", "]", "\\"}

RECURSIVE escapeRegExpFrom(_, _)
escapeRegExpFrom(d, i) ==
  IF i >= Len(d) THEN ""
  ELSE (IF CharAt(d, i) \in RegExpSpecial THEN "\\" ELSE "") \o CharAt(d, i)
       \o escapeRegExpFrom(d, i + 1)

\* display.replace(/[.*+?^${}()|[\]\\]/g, '\\$&'): the source of the pattern
escapeRegExp(d) == escapeRegExpFrom(d, 0)

RECURSIVE PatternCompiles(_, _)
\* new RegExp(src) throws a SyntaxError on a pattern it cannot compile: of
\* the patterns built from plain characters and escapes, those that hold a
\* special character other than the dot outside an escape
PatternCompiles(src, j) ==
  IF j >= Len(src) THEN TRUE
  ELSE IF CharAt(src, j) = "\\" THEN j + 1 < Len(src) /\ PatternCompiles(src, j + 2)
  ELSE IF CharAt(src, j) \in RegExpSpecial \ {"."} THEN FALSE
  ELSE PatternCompiles(src, j + 1)

RECURSIVE PatternEndAt(_, _, _, _)
\* Where the pattern src (from j on) ends when matched at position k of s,
\* -1 when it does not match: an escape matches its character, a dot any
\* character but a line break, another character itself
PatternEndAt(src, j, s, k) ==
  IF j >= Len(src) THEN k
  ELSE IF k >= Len(s) THEN -1
  ELSE IF CharAt(src, j) = "\\"
       THEN IF CharAt(src, j + 1) = CharAt(s, k)
            THEN PatternEndAt(src, j + 2, s, k + 1) ELSE -1
  ELSE IF CharAt(src, j) = "."
       THEN IF CharAt(s, k) \notin {"\n", "\r"}
            THEN PatternEndAt(src, j + 1, s, k + 1) ELSE -1
  ELSE IF CharAt(src, j) = CharAt(s, k)
       THEN PatternEndAt(src, j + 1, s, k + 1) ELSE -1

RECURSIVE execFrom(_, _, _)
\* regex.exec(s) for new RegExp(`\\b${src}\\b`, 'g') with lastIndex = k: the
\* leftmost match at or after k, index -1 for null
execFrom(src, s, k) ==
  IF k > Len(s) THEN [index |-> -1, end |-> -1]
  ELSE LET e == PatternEndAt(src, 0, s, k)
       IN  IF IsWordBoundary(s, k) /\ e >= 0 /\ IsWordBoundary(s, e)
           THEN [index |-> k, end |-> e]
           ELSE execFrom(src, s, k + 1)

\* `${verse}` of a reference: verse is optional in VerseReference
VerseText(ref) ==
  IF "verse" \in DOMAIN ref THEN NumToStr(ref.verse) ELSE "undefined"

\* const wikiLink = `[[${book} ${chapter}#${verse}|${display}]]`
wikiLink(ref) ==
  "[[" \o ref.book \o " " \o NumToStr(ref.chapter) \o "#" \o VerseText(ref)
       \o "|" \o ref.display \o "]]"

\* linkedRanges.some(range => ...)
isAlreadyLinked(ranges, matchStart, matchEnd) ==
  \E i \in 1..Len(ranges) :
    \/ matchStart >= ranges[i].start /\ matchStart < ranges[i].end
    \/ matchEnd > ranges[i].start /\ matchEnd <= ranges[i].end

\* linkedRanges.push({start, end}) followed by the forEach that shifts every
\* range starting at or after matchEnd by the change of length
pushAndAdjust(ranges, matchStart, matchEnd, linkLen) ==
  LET pushed == Append(ranges, [start |-> matchStart, end |-> matchStart + linkLen])
      adjustment == linkLen - (matchEnd - matchStart)
  IN  [i \in 1..Len(pushed) |->
         IF pushed[i].start >= matchEnd
         THEN [start |-> pushed[i].start + adjustment,
               end |-> pushed[i].end + adjustment]
         ELSE pushed[i]]

\* One evaluation of the while condition and, on a match, of the loop body,
\* for reference ref: what becomes of processed, linkedRanges and lastIndex
whileStep(text, ranges, ref, last) ==
  LET m    == execFrom(escapeRegExp(ref.display), text, last)
      link == wikiLink(ref)
  IN  IF m.index < 0
      THEN [matched |-> FALSE, replaced |-> FALSE, text |-> text,
            ranges |-> ranges, last |-> 0]
      ELSE IF isAlreadyLinked(ranges, m.index, m.end)
      THEN [matched |-> TRUE, replaced |-> FALSE, text |-> text,
            ranges |-> ranges, last |-> m.end]
      ELSE [matched |-> TRUE, replaced |-> TRUE,
            text |-> Substring(text, 0, m.index) \o link \o SubstringFrom(text, m.end),
            ranges |-> pushAndAdjust(ranges, m.index, m.end, Len(link)),
            last |-> m.index + Len(link)]

RECURSIVE InsertByLength(_, _)
\* r put behind every element whose display is at least as long as r's
InsertByLength(sorted, r) ==
  IF sorted = <<>> THEN <<r>>
  ELSE IF Len(Head(sorted).display) >= Len(r.display)
       THEN <<Head(sorted)>> \o InsertByLength(Tail(sorted), r)
       ELSE <<r>> \o sorted

\* Mutant of sortByDisplayLength: the references are taken in input order
sortKeepsInputOrder(refs) == refs

RECURSIVE sortByDisplayLength(_)
\* refs.sort((a, b) => b.display.length - a.display.length): longest first,
\* equal lengths in their order of the input (Array.prototype.sort is stable)
sortByDisplayLength(refs) ==
  IF refs = <<>> THEN <<>>
  ELSE InsertByLength(sortByDisplayLength(SubSeq(refs, 1, Len(refs) - 1)),
                      refs[Len(refs)])

(***************************************************************************)
(* Step 4: same-chapter shorthand                                          *)
(***************************************************************************)

RECURSIVE BookMatchFrom(_, _)
\* id.match(/note_([A-Za-z]+)_\d+_\d+/): group 1 of the leftmost match, ""
\* for no match
BookMatchFrom(id, i) ==
  IF i >= Len(id) THEN ""
  ELSE LET l  == LettersEnd(id, i + 5)
           d1 == DigitsEnd(id, l + 1)
       IN  IF /\ StartsWithAt(id, "note_", i)
              /\ l > i + 5
              /\ CharAt(id, l) = "_"
              /\ d1 > l + 1
              /\ CharAt(id, d1) = "_"
              /\ IsDigit(CharAt(id, d1 + 1))
           THEN Substring(id, i + 5, l)
           ELSE BookMatchFrom(id, i + 1)

\* /(?![^\[]*\]\])/ fails at e: a "]]" follows with no "[" before it
ClosesAhead(s, e) ==
  LET close == IndexOfFrom(s, "]]", e)
      open  == IndexOfFrom(s, "[", e)
  IN  close >= 0 /\ (open < 0 \/ close < open)

\* The match of
\*   /(?<!\[\[)(?<![#:])\b(\d+):(\d+)(?:-(\d+))?\b(?![^\[]*\]\])/
\* that starts at p, if there is one: with the range part when that
\* matches, otherwise without it
ShorthandAt(s, p) ==
  LET c == DigitsEnd(s, p)
      v == DigitsEnd(s, c + 1)
      e == DigitsEnd(s, v + 1)
      head  == /\ ~StartsWithAt(s, "[[", p - 2)
               /\ CharAt(s, p - 1) \notin {"#", ":"}
               /\ IsWordBoundary(s, p)
               /\ c > p
               /\ CharAt(s, c) = ":"
               /\ v > c + 1
      range == /\ head
               /\ CharAt(s, v) = "-"
               /\ e > v + 1
               /\ IsWordBoundary(s, e)
               /\ ~ClosesAhead(s, e)
      plain == head /\ IsWordBoundary(s, v) /\ ~ClosesAhead(s, v)
  IN  [ok |-> range \/ plain,
       end |-> IF range THEN e ELSE v,
       chapter |-> Substring(s, p, c),
       verse |-> Substring(s, c + 1, v),
       hasEnd |-> range,
       endVerse |-> IF range THEN Substring(s, v + 1, e) ELSE ""]

\* The callback of the step 4 replace; text is the variable processed, which
\* still holds the string the replace was called on
shorthandCallback(text, match, m, currentBook) ==
  LET at          == IndexOf(text, match)
      beforeMatch == Substring(text, 0, at)
      afterMatch  == SubstringFrom(text, at + Len(match))
  IN  IF \/ LastIndexOf(beforeMatch, "[[") > LastIndexOf(beforeMatch, "]]")
         \/ IndexOf(afterMatch, "]]") < IndexOf(afterMatch, "[[")
      THEN match
      ELSE IF m.hasEnd
      THEN "[[" \o currentBook \o " " \o m.chapter \o "#" \o m.verse \o "|"
                \o m.chapter \o ":" \o m.verse \o "-" \o m.endVerse \o "]]"
      ELSE "[[" \o currentBook \o " " \o m.chapter \o "#" \o m.verse \o "|"
                \o m.chapter \o ":" \o m.verse \o "]]"

RECURSIVE shorthandReplaceFrom(_, _, _)
shorthandReplaceFrom(text, i, currentBook) ==
  IF i >= Len(text) THEN ""
  ELSE LET m == ShorthandAt(text, i)
       IN  IF m.ok
           THEN shorthandCallback(text, Substring(text, i, m.end), m, currentBook)
                \o shorthandReplaceFrom(text, m.end, currentBook)
           ELSE CharAt(text, i) \o shorthandReplaceFrom(text, i + 1, currentBook)

\* Mutant of shorthandPass: the replace runs whatever currentBook is
shorthandPassUnguarded(text, currentBook) == shorthandReplaceFrom(text, 0, currentBook)

\* if (currentBook) { processed = processed.replace(/.../g, callback) }
shorthandPass(text, currentBook) ==
  IF currentBook /= "" THEN shorthandReplaceFrom(text, 0, currentBook) ELSE text

\* extractBookFromFootnote: the book of an id such as note_John_3_1, ""
\* standing for null
extractBookFromFootnote(footnote) ==
  IF footnote.defined /\ footnote.id /= "" THEN BookMatchFrom(footnote.id, 0) ELSE ""

(***************************************************************************)
(* FootnotesParser (services/footnotes.ts)                                 *)
(***************************************************************************)

\* The value of c as a digit of parseInt, -1 when it is none
DigitValue(c) ==
  IF c = "" THEN -1
  ELSE LET k == IndexOf("0123456789abcdefABCDEF", c)
       IN  IF k >= 16 THEN k - 6 ELSE k

\* d is a digit of the radix
InRadix(d, radix) == d >= 0 /\ d < radix

RECURSIVE RadixEnd(_, _, _)
\* end of the maximal run of digits of the radix that starts at i
RadixEnd(s, i, radix) ==
  IF InRadix(DigitValue(CharAt(s, i)), radix) THEN RadixEnd(s, i + 1, radix) ELSE i

RECURSIVE RadixValue(_, _)
\* the number a string of digits of the radix writes
RadixValue(t, radix) ==
  IF Len(t) = 0 THEN 0
  ELSE radix * RadixValue(Substring(t, 0, Len(t) - 1), radix)
       + DigitValue(CharAt(t, Len(t) - 1))

\* parseInt(t): leading whitespace, a sign, 0x or 0X for radix 16, then the
\* longest run of digits; what follows is ignored; NaN when the run is empty
parseInt(t) ==
  LET a     == SpaceEnd(t, 0)
      b     == IF CharAt(t, a) \in {"+", "-"} THEN a + 1 ELSE a
      hex   == StartsWithAt(t, "0x", b) \/ StartsWithAt(t, "0X", b)
      radix == IF hex THEN 16 ELSE 10
      c     == IF hex THEN b + 2 ELSE b
      e     == RadixEnd(t, c, radix)
      n     == RadixValue(Substring(t, c, e), radix)
  IN  [isNaN |-> e = c,
       value |-> IF e = c THEN 0 ELSE IF CharAt(t, a) = "-" THEN 0 - n ELSE n]

\* `${n}` for an integer n
IntToStr(n) == IF n < 0 THEN "-" \o NumToStr(0 - n) ELSE NumToStr(n)

RECURSIVE trimStart(_)
trimStart(s) ==
  IF IsSpace(CharAt(s, 0)) THEN trimStart(SubstringFrom(s, 1)) ELSE s

RECURSIVE trimEnd(_)
trimEnd(s) ==
  IF IsSpace(CharAt(s, Len(s) - 1)) THEN trimEnd(Substring(s, 0, Len(s) - 1)) ELSE s

\* s.trim()
trim(s) == trimEnd(trimStart(s))

RECURSIVE collapseFrom(_, _)
collapseFrom(s, i) ==
  IF i >= Len(s) THEN ""
  ELSE IF IsSpace(CharAt(s, i)) THEN " " \o collapseFrom(s, SpaceEnd(s, i))
  ELSE CharAt(s, i) \o collapseFrom(s, i + 1)

\* s.replace(/\s+/g, ' ')
collapseWhitespace(s) == collapseFrom(s, 0)

\* bookMap[code] || code, over the same table as expandBookCode
expandBookName(code) ==
  IF code \in DOMAIN bookMap THEN bookMap[code]
  ELSE IF code \in ObjectPrototype THEN inherited(code)
  ELSE code

validBooks ==
  {"Genesis", "Exodus", "Leviticus", "Numbers", "Deuteronomy", "Joshua",
   "Judges", "Ruth", "1 Samuel", "2 Samuel", "1 Kings", "2 Kings",
   "1 Chronicles", "2 Chronicles", "Ezra", "Nehemiah", "Esther", "Job",
   "Psalms", "Proverbs", "Ecclesiastes", "Song of Solomon", "Isaiah",
   "Jeremiah", "Lamentations", "Ezekiel", "Daniel", "Hosea", "Joel",
   "Amos", "Obadiah", "Jonah", "Micah", "Nahum", "Habakkuk", "Zephaniah",
   "Haggai", "Zechariah", "Malachi", "Matthew", "Mark", "Luke", "John",
   "Acts", "Romans", "1 Corinthians", "2 Corinthians", "Galatians",
   "Ephesians", "Philippians", "Colossians", "1 Thessalonians",
   "2 Thessalonians", "1 Timothy", "2 Timothy", "Titus", "Philemon",
   "Hebrews", "James", "1 Peter", "2 Peter", "1 John", "2 John", "3 John",
   "Jude", "Revelation"}

\* validBooks.includes(name)
isValidBookName(name) == name \in validBooks

\* parseDataRef(`Bible:${ref}`, display): <<>> for null, else one reference
parseDataRef(ref, display) ==
  LET m == refMatch(ref)
      base == [book |-> expandBookName(m.bookCode),
               chapter |-> parseInt(m.chapterNum).value,
               verse |-> parseInt(m.verse).value, display |-> display]
  IN  IF ~m.ok THEN <<>>
      ELSE IF m.hasEnd THEN <<base @@ [endVerse |-> parseInt(m.endVerse).value]>>
      ELSE <<base>>

RECURSIVE dataRefReferencesFrom(_, _)
\* html.match(/<data ...>/g) from i on: the next place the tag can open is
\* the next <data ref="Bible:
dataRefReferencesFrom(html, i) ==
  LET k == IndexOfFrom(html, DataOpen, i)
      t == DataTagAt(html, k)
  IN  IF k < 0 THEN <<>>
      ELSE IF t.ok
      THEN parseDataRef(t.ref, t.display) \o dataRefReferencesFrom(html, t.end)
      ELSE dataRefReferencesFrom(html, k + 1)

\* The references extractVerseReferences takes from the explicit tags of a note
dataRefReferences(html) == dataRefReferencesFrom(html, 0)

\* \s+(\d+):(\d+)(?:-(\d+))?\b from w on, the tail of both fallback
\* patterns: the range is taken when a word boundary follows it, else the
\* plain chapter:verse when a word boundary follows that
CitationTail(s, w) ==
  LET sp == SpaceEnd(s, w)
      c  == DigitsEnd(s, sp)
      v  == DigitsEnd(s, c + 1)
      e  == DigitsEnd(s, v + 1)
      head  == sp > w /\ c > sp /\ CharAt(s, c) = ":" /\ v > c + 1
      range == head /\ CharAt(s, v) = "-" /\ e > v + 1 /\ IsWordBoundary(s, e)
      plain == head /\ ~range /\ IsWordBoundary(s, v)
  IN  [ok |-> range \/ plain,
       chapter |-> Substring(s, sp, c),
       verse |-> Substring(s, c + 1, v),
       hasEnd |-> range,
       endVerse |-> IF range THEN Substring(s, v + 1, e) ELSE "",
       end |-> IF range THEN e ELSE v]

\* The match of a fallback pattern at p whose \w+ starts at b: \w+ takes the
\* whole word, since the tail needs a space after it
BookedMatch(s, p, b) ==
  [CitationTail(s, WordEnd(s, b)) EXCEPT
     !.ok = @ /\ WordEnd(s, b) > b /\ IsWordBoundary(s, p)]
  @@ [index |-> p, bookEnd |-> WordEnd(s, b)]

\* Two ways to match at one place, in the order the expression tries them
Alternation(first, second) == IF first.ok THEN first ELSE second

\* /\b(\d?\s*\w+)\s+(\d+):(\d+)(?:-(\d+))?\b/ at p: the book group is first
\* tried with the digit taken by \d?, then without it; \s* takes every space
NumberedBookAt(s, p) ==
  Alternation([BookedMatch(s, p, SpaceEnd(s, p + 1)) EXCEPT
                 !.ok = @ /\ IsDigit(CharAt(s, p))],
              BookedMatch(s, p, SpaceEnd(s, p)))

\* /\b(\w+)\s+(\d+):(\d+)(?:-(\d+))?\b/ at p
PlainBookAt(s, p) == BookedMatch(s, p, p)

\* The fallback patterns, in the order of the patterns array
patterns == <<"numbered", "plain">>

\* pattern.exec(text) tried at p
PatternAt(pattern, s, p) ==
  IF pattern = "numbered" THEN NumberedBookAt(s, p) ELSE PlainBookAt(s, p)

\* Mutant of matchReference: the push does not ask isValidBookName
matchReferenceUnchecked(text, m) ==
  <<[book |-> expandBookName(trim(Substring(text, m.index, m.bookEnd))),
     chapter |-> parseInt(m.chapter).value, verse |-> parseInt(m.verse).value,
     display |-> Substring(text, m.index, m.end)]>>

\* The body of the while loop for the match m: the reference pushed, if
\* the expanded book is a canonical name
matchReference(text, m) ==
  LET book == expandBookName(trim(Substring(text, m.index, m.bookEnd)))
      base == [book |-> book, chapter |-> parseInt(m.chapter).value,
               verse |-> parseInt(m.verse).value,
               display |-> Substring(text, m.index, m.end)]
  IN  IF ~isValidBookName(book) THEN <<>>
      ELSE IF m.hasEnd THEN <<base @@ [endVerse |-> parseInt(m.endVerse).value]>>
      ELSE <<base>>

RECURSIVE patternReferencesFrom(_, _, _)
RECURSIVE execStep(_, _, _, _)
\* What the loop pushes from place i on, m being the match tried at i: with
\* no match there the search moves on one place, else to lastIndex
execStep(pattern, text, i, m) ==
  IF ~m.ok THEN patternReferencesFrom(pattern, text, i + 1)
  ELSE matchReference(text, m) \o patternReferencesFrom(pattern, text, m.end)

\* while ((match = pattern.exec(text)) !== null) { ... } from lastIndex i
patternReferencesFrom(pattern, text, i) ==
  IF i > Len(text) THEN <<>>
  ELSE execStep(pattern, text, i, PatternAt(pattern, text, i))

RECURSIVE findBibleReferencesFrom(_, _)
findBibleReferencesFrom(text, k) ==
  IF k > Len(patterns) THEN <<>>
  ELSE patternReferencesFrom(patterns[k], text, 0)
       \o findBibleReferencesFrom(text, k + 1)

\* patterns.forEach(pattern => ...): every pattern scans the whole text
findBibleReferences(text) == findBibleReferencesFrom(text, 1)

(***************************************************************************)
(* A note block, as cheerio hands it to the parser: the children of one    *)
(* .note element in document order.  A child is a text node or an element  *)
(* that holds text; wrap is the tag of the element that encloses the child *)
(* alone ("" for none), as <sup> encloses the marker span.                 *)
(***************************************************************************)

TextNode(t) ==
  [tag |-> "#text", class |-> "", id |-> "", ref |-> "", text |-> t, wrap |-> ""]

\* <span class="noteNoteSuper" id="...">t</span>, inside <sup> or bare
MarkerSpan(id, t, wrap) ==
  [tag |-> "span", class |-> "noteNoteSuper", id |-> id, ref |-> "", text |-> t,
   wrap |-> wrap]

\* <span class="notetype">t</span>
TypeSpan(t) ==
  [tag |-> "span", class |-> "notetype", id |-> "", ref |-> "", text |-> t,
   wrap |-> ""]

\* <data ref="...">t</data>
DataElement(ref, t) ==
  [tag |-> "data", class |-> "", id |-> "", ref |-> ref, text |-> t, wrap |-> ""]

\* $note.find('.cls')
findClass(note, cls) == SelectSeq(note, LAMBDA n : n.class = cls)

\* note.find('.cls').remove()
removeClass(note, cls) == SelectSeq(note, LAMBDA n : n.class /= cls)

\* note.find(tag).remove(): the elements of the tag go with what they hold
removeTag(note, tag) == SelectSeq(note, LAMBDA n : n.tag /= tag /\ n.wrap /= tag)

RECURSIVE textOf(_)
\* .text(): the text of the nodes, concatenated in document order
textOf(nodes) ==
  IF Len(nodes) = 0 THEN "" ELSE nodes[1].text \o textOf(Tail(nodes))

\* .attr('id') of the first element of a selection, "" for undefined
attrId(nodes) == IF Len(nodes) = 0 THEN "" ELSE nodes[1].id

RECURSIVE escapeTextFrom(_, _)
\* The serializer writes &, < and > of a text node as entities
escapeTextFrom(t, i) ==
  IF i >= Len(t) THEN ""
  ELSE (CASE CharAt(t, i) = "&" -> "&amp;"
          [] CharAt(t, i) = "<" -> "&lt;"
          [] CharAt(t, i) = ">" -> "&gt;"
          [] OTHER -> CharAt(t, i)) \o escapeTextFrom(t, i + 1)

\* One child as .html() writes it
nodeHtml(n) ==
  LET attrs == (IF n.class /= "" THEN " class=\"" \o n.class \o "\"" ELSE "")
               \o (IF n.id /= "" THEN " id=\"" \o n.id \o "\"" ELSE "")
               \o (IF n.tag = "data" THEN " ref=\"" \o n.ref \o "\"" ELSE "")
      inner == IF n.tag = "#text" THEN escapeTextFrom(n.text, 0)
               ELSE "<" \o n.tag \o attrs \o ">" \o escapeTextFrom(n.text, 0)
                    \o "</" \o n.tag \o ">"
  IN  IF n.wrap = "" THEN inner
      ELSE "<" \o n.wrap \o ">" \o inner \o "</" \o n.wrap \o ">"

RECURSIVE htmlOf(_)
\* $note.html()
htmlOf(nodes) ==
  IF Len(nodes) = 0 THEN "" ELSE nodeHtml(nodes[1]) \o htmlOf(Tail(nodes))

\* Mutant of extractVerseReferences: the text patterns are scanned whatever
\* the explicit tags gave
extractVerseReferencesBoth(note) ==
  dataRefReferences(htmlOf(note)) \o findBibleReferences(textOf(note))

\* extractVerseReferences($note): the explicit tags, and the text patterns
\* only when the tags gave no reference
extractVerseReferences(note) ==
  LET references == dataRefReferences(htmlOf(note))
  IN  IF Len(references) = 0 THEN findBibleReferences(textOf(note))
      ELSE references

\* const number = numberText ? parseInt(numberText) : null
numberOf(numberText) ==
  parseInt(numberText) @@ [isNull |-> numberText = ""]

\* Mutant of noteFootnote: the push does not ask for a content
noteFootnoteKeepsEmpty(note, number) ==
  IF ~number.isNull /\ ~number.isNaN
  THEN <<[defined |-> TRUE, id |-> "note_" \o IntToStr(number.value),
          number |-> number.value, type |-> "",
          content |-> trim(collapseWhitespace(textOf(note))),
          verseReferences |-> <<>>]>>
  ELSE <<>>

\* The rest of the body of $('.note').each, number being read: <<>> when
\* nothing is pushed, else the one footnote pushed
noteFootnote(note, number) ==
  LET numberEl == findClass(note, "noteNoteSuper")
      falsy    == number.isNull \/ number.isNaN \/ number.value = 0
      id       == IF attrId(numberEl) /= "" THEN attrId(numberEl)
                  ELSE "note_" \o (IF falsy THEN "unknown"
                                   ELSE IntToStr(number.value))
      type     == trim(textOf(findClass(note, "notetype")))
      contentClone == removeClass(removeTag(note, "sup"), "notetype")
      content  == trim(collapseWhitespace(trim(textOf(contentClone))))
  IN  IF content /= "" /\ ~number.isNull /\ ~number.isNaN
      THEN <<[defined |-> TRUE, id |-> id, number |-> number.value,
              type |-> type, content |-> content,
              verseReferences |-> extractVerseReferences(note)]>>
      ELSE <<>>

\* The body of $('.note').each((_, noteEl) => { ... })
parseNote(note) ==
  noteFootnote(note, numberOf(trim(textOf(findClass(note, "noteNoteSuper")))))

RECURSIVE parseFootnotesFrom(_, _)
parseFootnotesFrom(html, i) ==
  IF i > Len(html) THEN <<>>
  ELSE parseNote(html[i]) \o parseFootnotesFrom(html, i + 1)

\* parseFootnotes(html) as a function of its argument, the note blocks of
\* the page in document order: the result of one call that runs alone
parseFootnotes(html) == parseFootnotesFrom(html, 1)

(***************************************************************************)
(* processFootnoteContent as a function of its arguments: the result of    *)
(* one call that runs alone                                                *)
(***************************************************************************)

\* Iterations of the while loop after which the model stops following it
MaxExec == 4

RECURSIVE linkOneRef(_, _, _, _, _)
\* What follows one evaluation r of the while condition and body for
\* reference ref: the loop is left on null, goes on otherwise
linkOneRefAfter(r, text, ranges, ref, fuel) ==
  IF ~r.matched THEN [text |-> text, ranges |-> ranges, returns |-> TRUE]
  ELSE IF fuel = 0 THEN [text |-> text, ranges |-> ranges, returns |-> FALSE]
  ELSE linkOneRef(r.text, r.ranges, ref, r.last, fuel - 1)

\* The while loop of one reference, from lastIndex last on; returns is FALSE
\* when the loop is still running after MaxExec passes
linkOneRef(text, ranges, ref, last, fuel) ==
  linkOneRefAfter(whileStep(text, ranges, ref, last), text, ranges, ref, fuel)

RECURSIVE linkAllRefs(_, _, _, _)
\* The forEach behind reference i, whose loop gave r
linkAllRefsAfter(r, refs, i) ==
  IF r.returns THEN linkAllRefs(r.text, r.ranges, refs, i + 1) ELSE r

\* sortedRefs.forEach(ref => ...)
linkAllRefs(text, ranges, refs, i) ==
  IF i > Len(refs) THEN [text |-> text, ranges |-> ranges, returns |-> TRUE]
  ELSE linkAllRefsAfter(linkOneRef(text, ranges, refs[i], 0, MaxExec), refs, i)

\* if (footnote && footnote.verseReferences && footnote.verseReferences.length > 0)
hasReferences(footnote) == footnote.defined /\ Len(footnote.verseReferences) > 0

\* Step 3 on the text steps 1 and 2 left
linkReferences(stripped, footnote) ==
  IF hasReferences(footnote)
  THEN linkAllRefs(stripped, <<>>, sortByDisplayLength(footnote.verseReferences), 1)
  ELSE [text |-> stripped, ranges |-> <<>>, returns |-> TRUE]

\* Step 4 on what step 3 left, and the return
linkShorthand(linkedText, footnote) ==
  [returns |-> linkedText.returns,
   value |-> shorthandPass(linkedText.text, extractBookFromFootnote(footnote))]

processFootnoteContent(content, footnote) ==
  linkShorthand(linkReferences(StripTags(ReplaceDataRefs(content)), footnote),
                footnote)

(***************************************************************************)
(* Inputs                                                                  *)
(***************************************************************************)

\* An explicit citation tag as the annotation markup writes it
DataTag(ref, display) == DataOpen \o ref \o "\">" \o display \o DataClose

TagJn == DataTag("Jn 1:4", "1:4")

TagMt == DataTag("Mt 5:3", "Mt 5:3")

TagBad == DataTag("Jn 3", "John")

Fragments ==
  {"John 3:16", "3:16", "1:4", "Matt 5:3", "1:0", "3:16-17", "see",
   "<i>x</i>", TagJn, TagMt, TagBad}

\* a tag whose code names a property of Object.prototype
TagInherited == DataTag("constructor 1:2", "x")

Contents ==
  {""} \cup Fragments \cup {f \o " " \o g : f \in Fragments, g \in Fragments}
  \cup {TagInherited}

rJohn == [book |-> "John", chapter |-> 3, verse |-> 16, display |-> "John 3:16"]

rShort == [book |-> "John", chapter |-> 3, verse |-> 16, display |-> "3:16"]

rJn == [book |-> "John", chapter |-> 1, verse |-> 4, display |-> "1:4"]

rMt == [book |-> "Matthew", chapter |-> 5, verse |-> 3, display |-> "Mt 5:3"]

rEmpty == [book |-> "John", chapter |-> 1, verse |-> 1, display |-> ""]

RefPool == {rJohn, rShort, rJn, rMt, rEmpty}

\* Longest references list of an input
MaxRefs == 2

RECURSIVE RefListsOfLen(_)
\* The lists of n different references of the pool
RefListsOfLen(n) ==
  IF n = 0 THEN {<<>>}
  ELSE {Append(l, r) : l \in RefListsOfLen(n - 1), r \in RefPool} \cap
       {l \in Seq(RefPool) : \A i, j \in 1..Len(l) : i /= j => l[i] /= l[j]}

RefLists == UNION {RefListsOfLen(n) : n \in 0..MaxRefs}

NoteIds == {"note_1", "note_John_3_1", "note_unknown"}

Workers == {"w1", "w2"}

FnIds == {"f1", "f2"}

\* No footnote argument: processFootnoteContent(content)
NoFootnote ==
  [defined |-> FALSE, id |-> "", number |-> 0, type |-> "", content |-> "",
   verseReferences |-> <<>>]

Footnote(id, content, refs) ==
  [defined |-> TRUE, id |-> id, number |-> 1, type |-> "sn", content |-> content,
   verseReferences |-> refs]

\* The whitespace between the elements of a note block
Gap == TextNode("\n ")

\* Note blocks: a citation in an explicit tag
nTagged ==
  <<Gap, MarkerSpan("note_1", "1", "sup"), Gap, TypeSpan("sn"),
    TextNode("\n See "), DataElement("Bible:Jn 1:24", "1:24"), TextNode(".\n")>>

\* a citation in plain text only
nPlain ==
  <<Gap, MarkerSpan("", "2", "sup"), Gap, TypeSpan("tn"),
    TextNode("\n see John 3:16\n")>>

\* an explicit tag that fails the reference grammar
nBadTag ==
  <<MarkerSpan("note_3", "3", "sup"), TypeSpan("tn"), TextNode(" "),
    DataElement("Bible:Jn 3", "John"), TextNode(" and Jn 1:4")>>

\* an empty marker
nNoNumber == <<MarkerSpan("note_4", "", "sup"), TextNode("lost")>>

\* a marker that is no number
nWord == <<MarkerSpan("", "a", "sup"), TypeSpan("sn"), TextNode(" text")>>

\* a marker outside <sup> whose text goes on after the digits
nSuffix == <<MarkerSpan("", "12abc", ""), TextNode(" x")>>

nZero == <<MarkerSpan("", "0", "sup"), TextNode(" Matt 5:3")>>

\* a marker with a sign
nNegative == <<MarkerSpan("", "-5", "sup"), TextNode(" x")>>

\* a citation in an explicit tag and another in the text beside it
nMixed ==
  <<MarkerSpan("note_8", "8", "sup"), TypeSpan("sn"), TextNode(" "),
    DataElement("Bible:Mt 5:3", "Mt 5:3"), TextNode(" and John 3:16")>>

\* an explicit tag whose book code the table does not know
nUnknownTag ==
  <<MarkerSpan("note_9", "9", "sup"), TypeSpan("sn"), TextNode(" "),
    DataElement("Bible:Xy 1:2", "Xy 1:2")>>

\* the same citation in plain text only
nUnknownText ==
  <<MarkerSpan("note_10", "10", "sup"), TypeSpan("sn"), TextNode(" Xy 1:2")>>

\* an explicit tag whose code names a property of Object.prototype
nInherited ==
  <<MarkerSpan("note_11", "11", "sup"), TypeSpan("sn"), TextNode(" "),
    DataElement("Bible:constructor 1:2", "x")>>

\* a tag that fails the grammar beside a tag with a verse range
nRange ==
  <<MarkerSpan("note_12", "12", "sup"), TypeSpan("sn"), TextNode(" "),
    DataElement("Bible:Jn 3", "John"), TextNode(" "),
    DataElement("Bible:Jn 3:16-18", "John 3:16-18")>>

\* a tag whose label holds a character the serializer writes as an entity
nEntity ==
  <<MarkerSpan("note_13", "13", "sup"), TypeSpan("sn"), TextNode(" "),
    DataElement("Bible:Mt 5:3", "Mt 5:3 & 4")>>

\* nothing but the marker and the type label
nEmpty == <<MarkerSpan("note_7", "7", "sup"), TypeSpan("sn"), TextNode("  ")>>

nNoMarker == <<TextNode("stray")>>

NotePool ==
  {nTagged, nPlain, nBadTag, nMixed, nUnknownTag, nUnknownText, nNoNumber, nWord,
   nSuffix, nZero, nNegative, nEmpty, nNoMarker}

\* Most note blocks of a page
MaxNotes == 3

RECURSIVE PagesOfLen(_)
PagesOfLen(n) ==
  IF n = 0 THEN {<<>>}
  ELSE {Append(page, note) : page \in PagesOfLen(n - 1), note \in NotePool}

\* The pages: the note blocks cheerio finds, in document order
Pages ==
  UNION {PagesOfLen(n) : n \in 0..MaxNotes}
  \cup {<<nInherited>>, <<nRange>>, <<nEntity>>, <<nRange, nEntity>>}

\* The arguments of a processFootnoteContent call and of a parseFootnotes call
LinkArgs(content, footnote, given) ==
  [content |-> content, footnote |-> footnote, given |-> given, html |-> <<>>]

ParseArgs(html) ==
  [content |-> "", footnote |-> "undefined", given |-> NoFootnote, html |-> html]

(***************************************************************************)
(* State                                                                   *)
(***************************************************************************)

VARIABLES
  footnotes,     \* the ParsedFootnote objects: footnotes[f] is object f
  arg,           \* arg[w]: the arguments of worker w's call, as passed
  pc,            \* pc[w]: where worker w's call stands
  processed,     \* processed[w]: the working text of w's call
  linkedRanges,  \* the claimed-range registries
  sortedRefs,    \* sortedRefs[w]: the sorted copy of the references
  refIndex,      \* refIndex[w]: the forEach index into sortedRefs[w]
  lastIndex,     \* lastIndex[w]: regex.lastIndex of the current reference
  execCount,     \* execCount[w]: loop bodies run for the current reference
  linked,        \* linked[w]: the working text when step 3 ended
  returned,      \* returned[w]: the string w's call returned
  noteIndex,     \* noteIndex[w]: the note block the each of w's parse is at
  parsedNotes,   \* parsedNotes[w]: the footnotes array of w's parseFootnotes
  returnedFootnotes,  \* returnedFootnotes[w]: the array w's parse returned
  markdown,      \* markdown[w]: the footnotes section written for w's footnote
  call,          \* the direct call of one method: its name and arguments
  callPc,        \* "idle", "called" or "returned"
  stringResult,  \* the string the called method returned
  listResult,    \* the array the called method returned
  config,        \* the SetupConfig of the converter
  convertPc,     \* where convert() stands
  batchNo,       \* the book batch convert() waits for (0: none yet)
  bookPc,        \* bookPc[b]: where the task of book b stands
  chapterBatchNo,\* chapterBatchNo[b]: the chapter batch book b waits for
  chapterTask,   \* chapterTask[<<b, c>>]: the task of chapter c of book b
  footnoteRequests, \* the chapters a footnote request was sent for
  results,       \* results[b]: the chapters processChaptersInParallel collected
  allBooks,      \* the books convert() has collected for the master index
  files,         \* the paths written
  masterIndex,   \* the books the master index written lists, in its order
  errors,        \* the requests and writes that failed
  fetchCall,     \* the arguments of a fetchBookChapters call
  fetchPc,       \* where the fetchBookChapters call stands
  batchPromises, \* its requests in the order issued, each with its state
  responses      \* what its promise resolved with

(***************************************************************************)
(* The converter: its book list, its configuration and its tasks           *)
(***************************************************************************)

\* BIBLE_BOOKS: the books in canonical order, each with its number of
\* chapters (three books stand for the sixty-six)
BIBLE_BOOKS ==
  <<[name |-> "Genesis", chapters |-> 3],
    [name |-> "Obadiah", chapters |-> 1],
    [name |-> "John", chapters |-> 2]>>

\* A book is its place in BIBLE_BOOKS, a chapter a book and a number
BookIds == 1..Len(BIBLE_BOOKS)

ChapterIds ==
  UNION {{<<b, c>> : c \in 1..BIBLE_BOOKS[b].chapters} : b \in BookIds}

\* The variables of a conversion
convertVars == <<config, convertPc, batchNo, bookPc, chapterBatchNo, chapterTask,
                 footnoteRequests, results, allBooks, files, masterIndex, errors>>

\* The variables of a fetchBookChapters call
fetchVars == <<fetchCall, fetchPc, batchPromises, responses>>

asyncVars == <<convertVars, fetchVars>>

\* A chapter task that has not started
NoTask == [pc |-> "waiting", footnotes |-> "none"]

\* No conversion
IdleConvert ==
  /\ config = [style |-> "", version |-> "", speedMode |-> ""]
  /\ convertPc = "idle"
  /\ batchNo = 0
  /\ bookPc = [b \in BookIds |-> "waiting"]
  /\ chapterBatchNo = [b \in BookIds |-> 0]
  /\ chapterTask = [k \in ChapterIds |-> NoTask]
  /\ footnoteRequests = {}
  /\ results = [b \in BookIds |-> <<>>]
  /\ allBooks = <<>>
  /\ files = {}
  /\ masterIndex = <<>>
  /\ errors = {}

\* No fetchBookChapters call
IdleFetch ==
  /\ fetchCall = [totalChapters |-> 0, batchSize |-> 0]
  /\ fetchPc = "idle"
  /\ batchPromises = <<>>
  /\ responses = <<>>

IdleAsync == IdleConvert /\ IdleFetch

\* The variables of a direct call
helperVars == <<call, callPc, stringResult, listResult>>

\* No direct call
NoCall == [fn |-> "", ref |-> <<>>, refs |-> <<>>, content |-> "", footnote |-> <<>>]

IdleHelpers ==
  /\ call = NoCall
  /\ callPc = "idle"
  /\ stringResult = ""
  /\ listResult = <<>>

vars == <<footnotes, arg, pc, processed, linkedRanges, sortedRefs, refIndex,
          lastIndex, execCount, linked, returned, noteIndex, parsedNotes,
          returnedFootnotes, markdown, helperVars, asyncVars>>

\* The footnote argument of w's call, as the object stands now
footnoteOf(w) ==
  IF arg[w].footnote = "undefined" THEN NoFootnote ELSE footnotes[arg[w].footnote]

\* Mutant of registryOf: one registry for every invocation
registryShared(w) == "w1"

\* const linkedRanges = []: the registry belongs to the invocation
registryOf(w) == w

EmptyLocals ==
  /\ processed = [w \in Workers |-> ""]
  /\ linkedRanges = [w \in Workers |-> <<>>]
  /\ sortedRefs = [w \in Workers |-> <<>>]
  /\ refIndex = [w \in Workers |-> 0]
  /\ lastIndex = [w \in Workers |-> 0]
  /\ execCount = [w \in Workers |-> 0]
  /\ linked = [w \in Workers |-> ""]
  /\ returned = [w \in Workers |-> ""]
  /\ noteIndex = [w \in Workers |-> 0]
  /\ parsedNotes = [w \in Workers |-> <<>>]
  /\ returnedFootnotes = [w \in Workers |-> <<>>]
  /\ markdown = [w \in Workers |-> ""]

\* One call: worker w1 runs processFootnoteContent(content),
\* processFootnoteContent(footnote.content, footnote) or parseFootnotes(html);
\* w2 never starts
Init ==
  /\ \/ /\ \E c \in Contents :
             \/ /\ footnotes = [f \in FnIds |-> NoFootnote]
                /\ arg = [w \in Workers |->
                            LinkArgs(IF w = "w1" THEN c ELSE "", "undefined",
                                     NoFootnote)]
             \/ \E id \in NoteIds, refs \in RefLists :
                  /\ footnotes = [f \in FnIds |->
                                    IF f = "f1" THEN Footnote(id, c, refs)
                                    ELSE NoFootnote]
                  /\ arg = [w \in Workers |->
                              IF w = "w1"
                              THEN LinkArgs(c, "f1", Footnote(id, c, refs))
                              ELSE LinkArgs("", "undefined", NoFootnote)]
        /\ pc = [w \in Workers |-> IF w = "w1" THEN "start" ELSE "idle"]
     \/ /\ \E html \in Pages :
             arg = [w \in Workers |-> ParseArgs(IF w = "w1" THEN html ELSE <<>>)]
        /\ footnotes = [f \in FnIds |-> NoFootnote]
        /\ pc = [w \in Workers |-> IF w = "w1" THEN "load" ELSE "idle"]
  /\ EmptyLocals
  /\ IdleHelpers
  /\ IdleAsync

(***************************************************************************)
(* processFootnoteContent, step by step                                    *)
(***************************************************************************)

\* let processed = content; processed = processed.replace(<data ...>, ...)
ReplaceTags(w) ==
  /\ pc[w] = "start"
  /\ processed' = [processed EXCEPT ![w] = ReplaceDataRefs(arg[w].content)]
  /\ pc' = [pc EXCEPT ![w] = "strip"]
  /\ UNCHANGED <<footnotes, arg, linkedRanges, sortedRefs, refIndex, lastIndex,
                 execCount, linked, returned,
                 noteIndex, parsedNotes, returnedFootnotes, markdown, helperVars, asyncVars>>

\* processed = processed.replace(/<[^>]+>/g, ''); const linkedRanges = []
RemoveTags(w) ==
  /\ pc[w] = "strip"
  /\ processed' = [processed EXCEPT ![w] = StripTags(processed[w])]
  /\ linkedRanges' = [linkedRanges EXCEPT ![registryOf(w)] = <<>>]
  /\ pc' = [pc EXCEPT ![w] = "refs"]
  /\ UNCHANGED <<footnotes, arg, sortedRefs, refIndex, lastIndex, execCount,
                 linked, returned,
                 noteIndex, parsedNotes, returnedFootnotes, markdown, helperVars, asyncVars>>

\* Mutant of arrayAfterSort: refs.sort(...) without the copy sorts in place
arraySortedInPlace(refs) == sortByDisplayLength(refs)

\* What [...refs].sort(...) leaves in the array refs itself: the spread
\* copies, so the footnote's own array keeps its order
arrayAfterSort(refs) == refs

\* if (footnote && ...) { const sortedRefs = [...footnote.verseReferences].sort(...)
SortRefs(w) ==
  /\ pc[w] = "refs"
  /\ IF hasReferences(footnoteOf(w))
     THEN /\ sortedRefs' = [sortedRefs EXCEPT
                              ![w] = sortByDisplayLength(footnoteOf(w).verseReferences)]
          /\ footnotes' = [footnotes EXCEPT
                             ![arg[w].footnote].verseReferences = arrayAfterSort(@)]
          /\ refIndex' = [refIndex EXCEPT ![w] = 1]
          /\ pc' = [pc EXCEPT ![w] = "link"]
          /\ UNCHANGED linked
     ELSE /\ linked' = [linked EXCEPT ![w] = processed[w]]
          /\ pc' = [pc EXCEPT ![w] = "shorthand"]
          /\ UNCHANGED <<sortedRefs, footnotes, refIndex>>
  /\ lastIndex' = [lastIndex EXCEPT ![w] = 0]
  /\ execCount' = [execCount EXCEPT ![w] = 0]
  /\ UNCHANGED <<arg, processed, linkedRanges, returned,
                 noteIndex, parsedNotes, returnedFootnotes, markdown, helperVars, asyncVars>>

\* while ((match = regex.exec(processed)) !== null) { ... }: one evaluation
\* of the condition and, on a match, of the body; on null, the next
\* reference of the forEach, or the end of step 3
LinkStep(w) ==
  /\ pc[w] = "link"
  /\ execCount[w] < MaxExec
  /\ LET r == whileStep(processed[w], linkedRanges[registryOf(w)],
                        sortedRefs[w][refIndex[w]], lastIndex[w])
     IN  IF r.matched
         THEN /\ processed' = [processed EXCEPT ![w] = r.text]
              /\ linkedRanges' = [linkedRanges EXCEPT ![registryOf(w)] = r.ranges]
              /\ lastIndex' = [lastIndex EXCEPT ![w] = r.last]
              /\ execCount' = [execCount EXCEPT ![w] = @ + 1]
              /\ UNCHANGED <<refIndex, pc, linked>>
         ELSE /\ lastIndex' = [lastIndex EXCEPT ![w] = 0]
              /\ execCount' = [execCount EXCEPT ![w] = 0]
              /\ refIndex' = [refIndex EXCEPT ![w] = @ + 1]
              /\ IF refIndex[w] = Len(sortedRefs[w])
                 THEN /\ pc' = [pc EXCEPT ![w] = "shorthand"]
                      /\ linked' = [linked EXCEPT ![w] = processed[w]]
                 ELSE UNCHANGED <<pc, linked>>
              /\ UNCHANGED <<processed, linkedRanges>>
  /\ UNCHANGED <<footnotes, arg, sortedRefs, returned,
                 noteIndex, parsedNotes, returnedFootnotes, markdown, helperVars, asyncVars>>

\* const currentBook = this.extractBookFromFootnote(footnote);
\* if (currentBook) { ... }  return processed
Shorthand(w) ==
  /\ pc[w] = "shorthand"
  /\ LET out == shorthandPass(processed[w], extractBookFromFootnote(footnoteOf(w)))
     IN  /\ processed' = [processed EXCEPT ![w] = out]
         /\ returned' = [returned EXCEPT ![w] = out]
  /\ pc' = [pc EXCEPT ![w] = "done"]
  /\ UNCHANGED <<footnotes, arg, linkedRanges, sortedRefs, refIndex, lastIndex,
                 execCount, linked,
                 noteIndex, parsedNotes, returnedFootnotes, markdown, helperVars, asyncVars>>

(***************************************************************************)
(* generateFootnotesSection, for the footnote whose content was linked     *)
(***************************************************************************)

Lower == "abcdefghijklmnopqrstuvwxyz"

Upper == "ABCDEFGHIJKLMNOPQRSTUVWXYZ"

RECURSIVE toUpperCaseFrom(_, _)
toUpperCaseFrom(s, i) ==
  IF i >= Len(s) THEN ""
  ELSE (IF IndexOf(Lower, CharAt(s, i)) >= 0
        THEN CharAt(Upper, IndexOf(Lower, CharAt(s, i)))
        ELSE CharAt(s, i)) \o toUpperCaseFrom(s, i + 1)

\* footnote.type.toUpperCase()
toUpperCase(s) == toUpperCaseFrom(s, 0)

\* The book and the chapter number of the chapter being written
ChapterBook == "John"

ChapterNum == 3

\* Mutant of getFootnoteVerseLink: the first digits of the id are taken,
\* as /(\d+)/ would
getFootnoteVerseLinkFirstDigits(footnote, book, chapter) ==
  LET starts == {i \in 0..(Len(footnote.id) - 1) : IsDigit(CharAt(footnote.id, i))}
      first == CHOOSE i \in starts : \A j \in starts : i <= j
  IN  IF starts = {} THEN ""
      ELSE "[[" \o book \o " " \o NumToStr(chapter) \o "#"
                \o Substring(footnote.id, first, DigitsEnd(footnote.id, first))
                \o "|↑]]"

\* footnote.id.match(/(\d+)$/) and the link built of it, '' without a match:
\* the match starts where the digits that end the id start
getFootnoteVerseLink(footnote, book, chapter) ==
  LET starts == {i \in 0..(Len(footnote.id) - 1) :
                   DigitsEnd(footnote.id, i) = Len(footnote.id)}
      first == CHOOSE i \in starts : \A j \in starts : i <= j
  IN  IF starts = {} THEN ""
      ELSE "[[" \o book \o " " \o NumToStr(chapter) \o "#"
                \o SubstringFrom(footnote.id, first) \o "|↑]]"

\* What the forEach body appends for one footnote
footnoteEntry(footnote, processedContent, verseLink) ==
  "[^" \o NumToStr(footnote.number) \o "]: **" \o toUpperCase(footnote.type)
       \o "** " \o processedContent
       \o (IF verseLink /= "" THEN " " \o verseLink ELSE "") \o "\n\n"

\* generateFootnotesSection([footnote], book, chapter), from the return of
\* its processFootnoteContent(footnote.content, footnote) on
GenerateFootnotesSection(w) ==
  /\ pc[w] = "done"
  /\ arg[w].footnote /= "undefined"
  /\ markdown' =
       [markdown EXCEPT ![w] =
          "\n---\n\n## Footnotes\n\n"
          \o footnoteEntry(footnoteOf(w), returned[w],
                           getFootnoteVerseLink(footnoteOf(w), ChapterBook,
                                                ChapterNum))]
  /\ pc' = [pc EXCEPT ![w] = "written"]
  /\ UNCHANGED <<footnotes, arg, processed, linkedRanges, sortedRefs, refIndex,
                 lastIndex, execCount, linked, returned, noteIndex, parsedNotes,
                 returnedFootnotes, helperVars, asyncVars>>

(***************************************************************************)
(* parseFootnotes, step by step                                            *)
(***************************************************************************)

\* const $ = cheerio.load(html); const footnotes = []
LoadHtml(w) ==
  /\ pc[w] = "load"
  /\ parsedNotes' = [parsedNotes EXCEPT ![w] = <<>>]
  /\ noteIndex' = [noteIndex EXCEPT ![w] = 1]
  /\ pc' = [pc EXCEPT ![w] = "each"]
  /\ UNCHANGED <<footnotes, arg, processed, linkedRanges, sortedRefs, refIndex,
                 lastIndex, execCount, linked, returned, returnedFootnotes, markdown, helperVars, asyncVars>>

\* Mutant of push: the items go to the front of the array
unshift(array, items) == items \o array

\* footnotes.push(...items)
push(array, items) == array \o items

\* One pass of $('.note').each((_, noteEl) => { ... footnotes.push(...) })
ParseNote(w) ==
  /\ pc[w] = "each"
  /\ noteIndex[w] <= Len(arg[w].html)
  /\ parsedNotes' = [parsedNotes EXCEPT
                       ![w] = push(@, parseNote(arg[w].html[noteIndex[w]]))]
  /\ noteIndex' = [noteIndex EXCEPT ![w] = @ + 1]
  /\ UNCHANGED <<footnotes, arg, pc, processed, linkedRanges, sortedRefs,
                 refIndex, lastIndex, execCount, linked, returned,
                 returnedFootnotes, markdown, helperVars, asyncVars>>

\* return footnotes
ReturnFootnotes(w) ==
  /\ pc[w] = "each"
  /\ noteIndex[w] > Len(arg[w].html)
  /\ returnedFootnotes' = [returnedFootnotes EXCEPT ![w] = parsedNotes[w]]
  /\ pc' = [pc EXCEPT ![w] = "parsed"]
  /\ UNCHANGED <<footnotes, arg, processed, linkedRanges, sortedRefs, refIndex,
                 lastIndex, execCount, linked, returned, noteIndex, parsedNotes,
                 markdown, helperVars, asyncVars>>

Next ==
  \E w \in Workers :
    \/ ReplaceTags(w)
    \/ RemoveTags(w)
    \/ SortRefs(w)
    \/ LinkStep(w)
    \/ Shorthand(w)
    \/ GenerateFootnotesSection(w)
    \/ LoadHtml(w)
    \/ ParseNote(w)
    \/ ReturnFootnotes(w)

Spec == Init /\ [][Next]_vars

(***************************************************************************)
(* Two calls at once, as processChaptersInParallel starts them: each       *)
(* worker links a footnote, the two footnotes being different objects or   *)
(* the same one; the steps of the two calls interleave in any order        *)
(***************************************************************************)

ParContents == {"John 3:16 3:16", TagJn \o " 1:4", "see 1:4"}

ParRefLists == {<<rShort, rJohn>>, <<rJn>>, <<>>}

ParFootnotes ==
  {Footnote("note_John_3_1", c, refs) : c \in ParContents, refs \in ParRefLists}

ParPages == {<<nTagged, nPlain>>, <<nNoNumber, nZero>>}

Kinds == {"link", "parse"}

\* The job of worker w: it links the footnote object it was handed, or it
\* parses its page
ParArgs(objects, kind, footnote, page, w) ==
  IF kind[w] = "link"
  THEN LinkArgs(objects[footnote[w]].content, footnote[w], objects[footnote[w]])
  ELSE ParseArgs(page[w])

\* Worker w1 links footnote f1 or parses a page; w2 links f1 or f2 or
\* parses a page, the same page or another.  An object no worker was
\* handed is left out.
InitPar ==
  /\ \E objects \in [FnIds -> ParFootnotes], kind \in [Workers -> Kinds],
        footnote \in [Workers -> FnIds], page \in [Workers -> ParPages] :
       /\ footnote["w1"] = "f1"
       /\ footnotes = [f \in FnIds |->
                         IF \E w \in Workers : kind[w] = "link" /\ footnote[w] = f
                         THEN objects[f] ELSE NoFootnote]
       /\ arg = [w \in Workers |-> ParArgs(objects, kind, footnote, page, w)]
       /\ pc = [w \in Workers |-> IF kind[w] = "link" THEN "start" ELSE "load"]
  /\ EmptyLocals
  /\ IdleHelpers
  /\ IdleAsync

SpecPar == InitPar /\ [][Next]_vars

(***************************************************************************)
(* Direct calls of the generator's private methods, as the unit tests make *)
(* them: generateVerseLink(ref) and processFootnoteContent(content,        *)
(* footnote) on references with and without verse and endVerse             *)
(***************************************************************************)

\* The variables of the jobs of the workers
jobVars == <<footnotes, arg, pc, processed, linkedRanges, sortedRefs, refIndex,
             lastIndex, execCount, linked, returned, noteIndex, parsedNotes,
             returnedFootnotes, markdown>>

\* No worker has a job
IdleJobs ==
  /\ footnotes = [f \in FnIds |-> NoFootnote]
  /\ arg = [w \in Workers |-> LinkArgs("", "undefined", NoFootnote)]
  /\ pc = [w \in Workers |-> "idle"]
  /\ EmptyLocals

\* a truthy number: present, and not 0
Truthy(ref, field) == field \in DOMAIN ref /\ ref[field] /= 0

\* Mutant of generateVerseLink: a range is linked to its last verse
generateVerseLinkToEnd(ref) ==
  IF Truthy(ref, "verse") /\ Truthy(ref, "endVerse")
  THEN "[[" \o ref.book \o " " \o NumToStr(ref.chapter) \o "#"
            \o NumToStr(ref.endVerse) \o "|" \o ref.display \o "]]"
  ELSE IF Truthy(ref, "verse")
  THEN "[[" \o ref.book \o " " \o NumToStr(ref.chapter) \o "#"
            \o NumToStr(ref.verse) \o "|" \o ref.display \o "]]"
  ELSE "[[" \o ref.book \o " " \o NumToStr(ref.chapter) \o "|" \o ref.display \o "]]"

\* generateVerseLink(ref): if (verse && endVerse) ... else if (verse) ... else ...
generateVerseLink(ref) ==
  IF Truthy(ref, "verse") /\ Truthy(ref, "endVerse")
  THEN "[[" \o ref.book \o " " \o NumToStr(ref.chapter) \o "#"
            \o NumToStr(ref.verse) \o "|" \o ref.display \o "]]"
  ELSE IF Truthy(ref, "verse")
  THEN "[[" \o ref.book \o " " \o NumToStr(ref.chapter) \o "#"
            \o NumToStr(ref.verse) \o "|" \o ref.display \o "]]"
  ELSE "[[" \o ref.book \o " " \o NumToStr(ref.chapter) \o "|" \o ref.display \o "]]"

\* The references of the generateVerseLink tests, without verse and endVerse
BareRefs ==
  {[book |-> "John", chapter |-> 3, display |-> "John 3:16"],
   [book |-> "Matthew", chapter |-> 5, display |-> "Matt 5:3-5"],
   [book |-> "Genesis", chapter |-> 1, display |-> "Genesis 1"]}

\* The verse and the endVerse of a reference; Absent for a missing property
Absent == 0 - 1

Verses == {Absent, 0, 3, 16}

EndVerses == {Absent, 0, 5, 18}

withNumber(ref, field, n) == IF n = Absent THEN ref ELSE ref @@ (field :> n)

HelperRefs ==
  {withNumber(withNumber(r, "verse", v), "endVerse", e) :
     r \in BareRefs, v \in Verses, e \in EndVerses}

\* The contents a reference's display stands in
HelperContents(ref) == {ref.display, "see " \o ref.display \o "."}

RECURSIVE footnoteEntries(_, _, _)
\* footnotes.forEach(footnote => { ... markdown += ... })
footnoteEntries(list, book, chapter) ==
  IF list = <<>> THEN ""
  ELSE footnoteEntry(Head(list),
                     processFootnoteContent(Head(list).content, Head(list)).value,
                     getFootnoteVerseLink(Head(list), book, chapter))
       \o footnoteEntries(Tail(list), book, chapter)

\* generateFootnotesSection(footnotes, book, chapter)
generateFootnotesSection(list, book, chapter) ==
  IF Len(list) = 0 THEN ""
  ELSE "\n---\n\n## Footnotes\n\n" \o footnoteEntries(list, book, chapter)

RECURSIVE totalVerses(_)
\* sections.reduce((sum, section) => sum + section.verses.length, 0)
totalVerses(sections) ==
  IF sections = <<>> THEN 0
  ELSE Len(Head(sections).verses) + totalVerses(Tail(sections))

\* generateFrontmatter(chapter)
generateFrontmatter(style, version, chapter) ==
  IF style = "simple" THEN ""
  ELSE "---\nbook: " \o chapter.book \o "\nchapter: " \o NumToStr(chapter.chapter)
       \o "\nverses: " \o NumToStr(totalVerses(chapter.sections))
       \o "\nversion: " \o version \o "\n---\n\n"

\* generateHeader(book, chapter)
generateHeader(book, chapter) == "# " \o book \o " " \o NumToStr(chapter) \o "\n\n"

\* generateNavigation(book, chapter)
generateNavigation(style, book, chapter) ==
  LET prevChapter == IF chapter > 1
                     THEN "[[" \o book \o " " \o NumToStr(chapter - 1) \o "|← "
                          \o book \o " " \o NumToStr(chapter - 1) \o "]]"
                     ELSE ""
      nextChapter == "[[" \o book \o " " \o NumToStr(chapter + 1) \o "|" \o book
                     \o " " \o NumToStr(chapter + 1) \o " →]]"
      bookIndex == "[[" \o book \o "|" \o book \o "]]"
  IN  IF style = "simple" THEN ""
      ELSE (IF prevChapter /= "" THEN prevChapter \o " | " ELSE "")
           \o bookIndex \o " | " \o nextChapter \o "\n\n"

RECURSIVE footnoteMarkers(_)
\* footnoteNumbers.map(num => `[^${num}]`).join('')
footnoteMarkers(numbers) ==
  IF numbers = <<>> THEN ""
  ELSE "[^" \o NumToStr(Head(numbers)) \o "]" \o footnoteMarkers(Tail(numbers))

\* generateVerse(verse, book, chapter, footnotes)
generateVerse(style, verse, book, chapter) ==
  LET verseText == verse.text \o footnoteMarkers(verse.footnoteNumbers)
      number == NumToStr(verse.number)
  IN  CASE style = "simple" -> "**" \o number \o "** " \o verseText \o "\n\n"
        [] style = "manual" ->
             number \o ". " \o verseText \o " ^[[" \o book \o " "
             \o NumToStr(chapter) \o "#" \o number \o "]]\n\n"
        [] OTHER -> "### " \o number \o "\n" \o verseText \o " ^" \o number \o "\n\n"

RECURSIVE generateVerses(_, _, _, _)
\* section.verses.forEach(verse => { markdown += this.generateVerse(...) })
generateVerses(style, verses, book, chapter) ==
  IF verses = <<>> THEN ""
  ELSE generateVerse(style, Head(verses), book, chapter)
       \o generateVerses(style, Tail(verses), book, chapter)

RECURSIVE generateSections(_, _, _, _)
\* sections.forEach(section => { ... })
generateSections(style, sections, book, chapter) ==
  IF sections = <<>> THEN ""
  ELSE (IF Head(sections).title /= "" /\ style = "study"
        THEN "## " \o Head(sections).title \o "\n\n" ELSE "")
       \o generateVerses(style, Head(sections).verses, book, chapter) \o "\n"
       \o generateSections(style, Tail(sections), book, chapter)

\* generateFooterNavigation(book, chapter)
generateFooterNavigation(style, book, chapter) ==
  IF style = "simple" THEN ""
  ELSE "\n---\n\n" \o generateNavigation(style, book, chapter)

\* generateChapterMarkdown(chapter, footnotes) of a generator made for
\* style and version
generateChapterMarkdown(style, version, chapter, list) ==
  trim(generateFrontmatter(style, version, chapter)
       \o generateHeader(chapter.book, chapter.chapter)
       \o generateNavigation(style, chapter.book, chapter.chapter) \o "\n"
       \o generateSections(style, chapter.sections, chapter.book, chapter.chapter)
       \o (IF style = "study" /\ Len(list) > 0
           THEN generateFootnotesSection(list, chapter.book, chapter.chapter)
           ELSE "")
       \o generateFooterNavigation(style, chapter.book, chapter.chapter))

Styles == {"study", "simple", "manual"}

\* The chapter of the markdown generation tests, and one with a section
\* title and a footnote marker in its verse
Chapters ==
  {[book |-> "John", chapter |-> 3,
    sections |-> <<[title |-> "",
                    verses |-> <<[number |-> 1, text |-> "Sample verse text",
                                  footnoteNumbers |-> <<>>]>>]>>],
   [book |-> "John", chapter |-> 3,
    sections |-> <<[title |-> "Nicodemus",
                    verses |-> <<[number |-> 1, text |-> "Sample verse text",
                                  footnoteNumbers |-> <<1>>]>>]>>]}

\* The footnotes of the tests: ids with and without digits at the end
ChapterFootnotes ==
  {[Footnote(id, c.content, c.refs) EXCEPT !.type = t.type, !.number = t.number] :
     id \in {"note_3", "note_John_3_16", "note_unknown"},
     t \in {[type |-> "sn", number |-> 1], [type |-> "tn", number |-> 16]},
     c \in {[content |-> "Test footnote", refs |-> <<>>],
            [content |-> "see John 3:16", refs |-> <<rJohn>>]}}

\* Longest footnotes list of a chapter
MaxFootnotes == 2

RECURSIVE FootnoteListsOfLen(_)
FootnoteListsOfLen(n) ==
  IF n = 0 THEN {<<>>}
  ELSE {Append(list, f) : list \in FootnoteListsOfLen(n - 1), f \in ChapterFootnotes}

FootnoteLists == UNION {FootnoteListsOfLen(n) : n \in 0..MaxFootnotes}

GenerateChapterMarkdownCall(style, chapter, list) ==
  [fn |-> "generateChapterMarkdown", style |-> style, version |-> "NET",
   chapter |-> chapter, footnotes |-> list]

ChapterCalls ==
  {GenerateChapterMarkdownCall(style, chapter, list) :
     style \in Styles, chapter \in Chapters, list \in FootnoteLists}

\* const key = `${ref.book}:${ref.chapter}:${ref.verse}`
dedupKey(ref) == ref.book \o ":" \o NumToStr(ref.chapter) \o ":" \o VerseText(ref)

RECURSIVE filterUnseen(_, _)
\* references.filter(ref => { if (seen.has(key)) return false; seen.add(key);
\* return true; })
filterUnseen(refs, seen) ==
  IF refs = <<>> THEN <<>>
  ELSE IF dedupKey(Head(refs)) \in seen THEN filterUnseen(Tail(refs), seen)
  ELSE <<Head(refs)>> \o filterUnseen(Tail(refs), seen \cup {dedupKey(Head(refs))})

\* Mutant of deduplicateReferences: the key leaves the verse out
deduplicateByChapter(refs) ==
  LET firsts == {i \in 1..Len(refs) :
                   \A j \in 1..(i - 1) :
                     refs[j].book /= refs[i].book \/ refs[j].chapter /= refs[i].chapter}
      pick[i \in 0..Len(refs)] ==
        IF i = 0 THEN <<>>
        ELSE IF i \in firsts THEN Append(pick[i - 1], refs[i]) ELSE pick[i - 1]
  IN  pick[Len(refs)]

\* deduplicateReferences(references)
deduplicateReferences(refs) == filterUnseen(refs, {})

\* The references of the deduplicateReferences tests, and John 3 without a
\* verse and with verse 0
DedupRefs ==
  {[book |-> "John", chapter |-> 3, verse |-> 16, display |-> "John 3:16"],
   [book |-> "John", chapter |-> 3, verse |-> 16, display |-> "Jn 3:16"],
   [book |-> "Matthew", chapter |-> 5, verse |-> 3, display |-> "Matt 5:3"],
   [book |-> "John", chapter |-> 3, verse |-> 17, display |-> "John 3:17"],
   [book |-> "John", chapter |-> 4, verse |-> 16, display |-> "John 4:16"],
   [book |-> "John", chapter |-> 3, display |-> "John 3"],
   [book |-> "John", chapter |-> 3, verse |-> 0, display |-> "John 3"]}

\* Longest references list of a deduplicateReferences call
MaxDedup == 3

RECURSIVE DedupListsOfLen(_)
DedupListsOfLen(n) ==
  IF n = 0 THEN {<<>>}
  ELSE {Append(list, r) : list \in DedupListsOfLen(n - 1), r \in DedupRefs}

DeduplicateReferencesCall(refs) == [fn |-> "deduplicateReferences", refs |-> refs]

DedupCalls ==
  {DeduplicateReferencesCall(refs) :
     refs \in UNION {DedupListsOfLen(n) : n \in 0..MaxDedup}}

GenerateVerseLinkCall(ref) ==
  [fn |-> "generateVerseLink", ref |-> ref, refs |-> <<>>, content |-> "",
   footnote |-> NoFootnote]

ProcessFootnoteContentCall(content, footnote) ==
  [fn |-> "processFootnoteContent", ref |-> <<>>, refs |-> <<>>,
   content |-> content, footnote |-> footnote]

HelperCalls ==
  {GenerateVerseLinkCall(r) : r \in HelperRefs}
  \cup UNION {{ProcessFootnoteContentCall(c, Footnote("note_1", c, <<r>>)) :
                 c \in HelperContents(r)} : r \in HelperRefs}
  \cup ChapterCalls
  \cup DedupCalls

InitHelpers ==
  /\ IdleJobs
  /\ call \in HelperCalls
  /\ callPc = "called"
  /\ stringResult = ""
  /\ listResult = <<>>
  /\ IdleAsync

\* const link = (markdownGenerator as any).generateVerseLink(ref)
GenerateVerseLink ==
  /\ callPc = "called"
  /\ call.fn = "generateVerseLink"
  /\ stringResult' = generateVerseLink(call.ref)
  /\ callPc' = "returned"
  /\ UNCHANGED <<jobVars, call, listResult, asyncVars>>

\* const processed = (markdownGenerator as any).processFootnoteContent(content, footnote)
ProcessFootnoteContent ==
  /\ callPc = "called"
  /\ call.fn = "processFootnoteContent"
  /\ processFootnoteContent(call.content, call.footnote).returns
  /\ stringResult' = processFootnoteContent(call.content, call.footnote).value
  /\ callPc' = "returned"
  /\ UNCHANGED <<jobVars, call, listResult, asyncVars>>

\* const markdown = markdownGenerator.generateChapterMarkdown(chapter, footnotes)
GenerateChapterMarkdown ==
  /\ callPc = "called"
  /\ call.fn = "generateChapterMarkdown"
  /\ \A i \in 1..Len(call.footnotes) :
       processFootnoteContent(call.footnotes[i].content, call.footnotes[i]).returns
  /\ stringResult' = generateChapterMarkdown(call.style, call.version, call.chapter,
                                             call.footnotes)
  /\ callPc' = "returned"
  /\ UNCHANGED <<jobVars, call, listResult, asyncVars>>

\* const unique = (markdownGenerator as any).deduplicateReferences(refs)
DeduplicateReferences ==
  /\ callPc = "called"
  /\ call.fn = "deduplicateReferences"
  /\ listResult' = deduplicateReferences(call.refs)
  /\ callPc' = "returned"
  /\ UNCHANGED <<jobVars, call, stringResult, asyncVars>>

NextHelpers ==
  \/ DeduplicateReferences
  \/ GenerateVerseLink
  \/ ProcessFootnoteContent
  \/ GenerateChapterMarkdown

SpecHelpers == InitHelpers /\ [][NextHelpers]_vars

(***************************************************************************)
(* The converter: convert() and processChaptersInParallel().  A task runs  *)
(* from one await to the next in one step; what it awaits (a request, a    *)
(* write) resolves or rejects in a step of its own, in any order.          *)
(***************************************************************************)

\* BibleVersion
Versions == {"NET", "NASB"}

\* speedMode?: 'fast' | 'balanced'
SpeedModes == {"fast", "balanced", "undefined"}

\* The books of a batch in fast mode and in balanced mode, and the chapters
\* of a batch in fast mode and in balanced mode, scaled to the three books
FastBooks == 2

BalancedBooks == 1

FastChapters == 3

BalancedChapters == 2

\* const speedMode = this.config.speedMode || 'balanced'
speedModeOf(cfg) ==
  IF cfg.speedMode = "undefined" THEN "balanced" ELSE cfg.speedMode

\* const BOOK_CONCURRENCY = speedMode === 'fast' ? 20 : 10
BOOK_CONCURRENCY(speedMode) ==
  IF speedMode = "fast" THEN FastBooks ELSE BalancedBooks

\* const CHAPTER_CONCURRENCY = speedMode === 'fast' ? 50 : 20
CHAPTER_CONCURRENCY(speedMode) ==
  IF speedMode = "fast" THEN FastChapters ELSE BalancedChapters

RECURSIVE slices(_, _)
\* for (let i = 0; i < list.length; i += size) batches.push(list.slice(i, i + size))
slices(list, size) ==
  IF Len(list) = 0 THEN <<>>
  ELSE IF Len(list) <= size THEN <<list>>
  ELSE <<SubSeq(list, 1, size)>> \o slices(SubSeq(list, size + 1, Len(list)), size)

\* bookBatches, over the places of the books in BIBLE_BOOKS
bookBatches(cfg) ==
  slices([b \in BookIds |-> b], BOOK_CONCURRENCY(speedModeOf(cfg)))

\* bookParsedChapters: the chapters of the responses, which hold the
\* chapters asked for, in their order
bookParsedChapters(b) == [c \in 1..BIBLE_BOOKS[b].chapters |-> c]

\* chapterBatches of one processChaptersInParallel call
chapterBatches(cfg, b) ==
  slices(bookParsedChapters(b), CHAPTER_CONCURRENCY(speedModeOf(cfg)))

\* The elements of an array
Elements(list) == {list[i] : i \in 1..Len(list)}

\* Mutant of wantsFootnotes: the speed mode is not asked
wantsFootnotesInFastMode(cfg) == cfg.style = "study" /\ cfg.version = "NET"

\* this.config.style === 'study' && this.config.version === 'NET' && !skipFootnotes
wantsFootnotes(cfg) ==
  cfg.style = "study" /\ cfg.version = "NET" /\ ~(cfg.speedMode = "fast")

\* fetchFootnotes: if (version !== 'NET') return ''; otherwise the request
fetchFootnotesSends(version) == version = "NET"

\* The chapter task from its start to its first await: the footnote
\* request, or generateChapterMarkdown(chapter, []) and the write
startChapter(cfg) ==
  IF wantsFootnotes(cfg)
  THEN [pc |-> "footnotes", footnotes |-> "none"]
  ELSE [pc |-> "writing", footnotes |-> "empty"]

\* footnotes = this.footnotesParser.parseFootnotes(footnotesHtml), then
\* generateChapterMarkdown(chapter, footnotes) and the write
withFootnotes(task) == [task EXCEPT !.pc = "writing", !.footnotes = "parsed"]

\* Mutant of catchFootnotesError: the error leaves the task
rethrowFootnotesError(task) == [task EXCEPT !.pc = "failed"]

\* catch (error) { }: footnotes is still [], then
\* generateChapterMarkdown(chapter, footnotes) and the write
catchFootnotesError(task) == [task EXCEPT !.pc = "writing", !.footnotes = "empty"]

\* processChaptersInParallel at batch j of book b, the tasks being tasks:
\* chapterBatch.map(...) starts every chapter of the batch; behind the last
\* batch the call returns and the book task goes on to writeBookIndex
atChapterBatch(cfg, b, tasks, j) ==
  LET batches == chapterBatches(cfg, b)
  IN  IF j <= Len(batches)
      THEN [tasks |-> [k \in ChapterIds |->
                         IF k[1] = b /\ k[2] \in Elements(batches[j])
                         THEN startChapter(cfg) ELSE tasks[k]],
            requests |-> IF wantsFootnotes(cfg) /\ fetchFootnotesSends(cfg.version)
                         THEN {<<b, c>> : c \in Elements(batches[j])} ELSE {},
            bookPc |-> "chapters"]
      ELSE [tasks |-> tasks, requests |-> {}, bookPc |-> "index"]

\* convert() at book batch j: bookBatch.map(...) starts every book of the
\* batch, each up to its fetchBookChapters; behind the last batch
\* generateMasterIndex(allBooks) and writeMasterIndex
atBookBatch(cfg, pcs, j) ==
  LET batches == bookBatches(cfg)
  IN  IF j <= Len(batches)
      THEN [bookPc |-> [b \in BookIds |->
                          IF b \in Elements(batches[j]) THEN "fetching" ELSE pcs[b]],
            convertPc |-> "books"]
      ELSE [bookPc |-> pcs, convertPc |-> "master"]

\* path.join(version, sanitizeFileName(book), `${book} ${chapterNum}.md`)
chapterPath(cfg, k) ==
  cfg.version \o "/" \o BIBLE_BOOKS[k[1]].name \o "/" \o BIBLE_BOOKS[k[1]].name
    \o " " \o NumToStr(k[2]) \o ".md"

\* path.join(version, sanitizeFileName(bookName), 'index.md')
bookIndexPath(cfg, b) == cfg.version \o "/" \o BIBLE_BOOKS[b].name \o "/index.md"

\* path.join(version, 'index.md')
masterIndexPath(cfg) == cfg.version \o "/index.md"

\* path.join(version, 'README.md')
readmePath(cfg) == cfg.version \o "/README.md"

\* newTestamentBooks (the books of the model among them)
newTestamentBooks == {"Matthew", "Mark", "Luke", "John", "Acts", "Romans"}

isOldTestament(bookName) == bookName \notin newTestamentBooks

\* generateMasterIndex(books): the books it lists, the Old Testament ones
\* first, each group in the order of books
generateMasterIndex(books) ==
  SelectSeq(books, LAMBDA book : isOldTestament(book.name))
    \o SelectSeq(books, LAMBDA book : ~isOldTestament(book.name))

\* return { name: bookName, chapters: chapterNumbers }
completedBook(b, chapters) == [name |-> BIBLE_BOOKS[b].name, chapters |-> chapters]

\* Mutant of promiseAll: the values in another order than that of the
\* promises, the last of the batch first
promiseAllLastFirst(batch, values) ==
  [i \in 1..Len(batch) |-> values[batch[Len(batch) + 1 - i]]]

\* await Promise.all(promises): the values in the order of the promises
promiseAll(batch, values) == [i \in 1..Len(batch) |-> values[batch[i]]]

Configs ==
  {[style |-> st, version |-> v, speedMode |-> sp] :
     st \in Styles, v \in Versions, sp \in SpeedModes}

\* new BibleConverter(config).convert() is called
InitConvert ==
  /\ IdleJobs
  /\ IdleHelpers
  /\ IdleFetch
  /\ config \in Configs
  /\ convertPc = "init"
  /\ batchNo = 0
  /\ bookPc = [b \in BookIds |-> "waiting"]
  /\ chapterBatchNo = [b \in BookIds |-> 0]
  /\ chapterTask = [k \in ChapterIds |-> NoTask]
  /\ footnoteRequests = {}
  /\ results = [b \in BookIds |-> <<>>]
  /\ allBooks = <<>>
  /\ files = {}
  /\ masterIndex = <<>>
  /\ errors = {}

\* What no step of a conversion changes
convertFrame == <<jobVars, helperVars, fetchVars, config>>

\* await this.fileWriter.initialize() resolves: the batches are cut and the
\* books of the first batch start
InitializeResolved ==
  /\ convertPc = "init"
  /\ LET r == atBookBatch(config, bookPc, 1)
     IN  /\ bookPc' = r.bookPc
         /\ convertPc' = r.convertPc
  /\ batchNo' = 1
  /\ UNCHANGED <<convertFrame, chapterBatchNo, chapterTask, footnoteRequests,
                 results, allBooks, files, masterIndex, errors>>

\* await this.fileWriter.initialize() rejects, outside the try
InitializeRejected ==
  /\ convertPc = "init"
  /\ convertPc' = "rejected"
  /\ errors' = errors \cup {<<"initialize", config.version>>}
  /\ UNCHANGED <<convertFrame, batchNo, bookPc, chapterBatchNo, chapterTask,
                 footnoteRequests, results, allBooks, files, masterIndex>>

\* await bibleApi.fetchBookChapters(...) resolves in the task of book b: the
\* chapters are parsed and processChaptersInParallel starts its first batch
FetchBookChaptersResolved(b) ==
  /\ bookPc[b] = "fetching"
  /\ LET r == atChapterBatch(config, b, chapterTask, 1)
     IN  /\ chapterTask' = r.tasks
         /\ footnoteRequests' = footnoteRequests \cup r.requests
         /\ bookPc' = [bookPc EXCEPT ![b] = r.bookPc]
  /\ chapterBatchNo' = [chapterBatchNo EXCEPT ![b] = 1]
  /\ UNCHANGED <<convertFrame, convertPc, batchNo, results, allBooks, files,
                 masterIndex, errors>>

\* The task of book b rejects: Promise.all(bookPromises) rejects with it,
\* the catch of convert() throws the error again
bookRejects(b) ==
  /\ bookPc' = [bookPc EXCEPT ![b] = "failed"]
  /\ convertPc' = "rejected"

\* await bibleApi.fetchBookChapters(...) rejects
FetchBookChaptersRejected(b) ==
  /\ bookPc[b] = "fetching"
  /\ bookRejects(b)
  /\ errors' = errors \cup {<<"fetch", BIBLE_BOOKS[b].name>>}
  /\ UNCHANGED <<convertFrame, batchNo, chapterBatchNo, chapterTask,
                 footnoteRequests, results, allBooks, files, masterIndex>>

\* await bibleApi.fetchFootnotes(...) resolves and parseFootnotes returns
FetchFootnotesResolved(k) ==
  /\ chapterTask[k].pc = "footnotes"
  /\ chapterTask' = [chapterTask EXCEPT ![k] = withFootnotes(@)]
  /\ UNCHANGED <<convertFrame, convertPc, batchNo, bookPc, chapterBatchNo,
                 footnoteRequests, results, allBooks, files, masterIndex, errors>>

\* await bibleApi.fetchFootnotes(...) resolves and parseFootnotes throws
ParseFootnotesThrows(k) ==
  /\ chapterTask[k].pc = "footnotes"
  /\ chapterTask' = [chapterTask EXCEPT ![k] = catchFootnotesError(@)]
  /\ errors' = errors \cup {<<"parseFootnotes", chapterPath(config, k)>>}
  /\ IF chapterTask'[k].pc = "failed" THEN bookRejects(k[1])
     ELSE UNCHANGED <<bookPc, convertPc>>
  /\ UNCHANGED <<convertFrame, batchNo, chapterBatchNo, footnoteRequests,
                 results, allBooks, files, masterIndex>>

\* await bibleApi.fetchFootnotes(...) rejects
FetchFootnotesRejected(k) ==
  /\ chapterTask[k].pc = "footnotes"
  /\ chapterTask' = [chapterTask EXCEPT ![k] = catchFootnotesError(@)]
  /\ errors' = errors \cup {<<"fetchFootnotes", chapterPath(config, k)>>}
  /\ IF chapterTask'[k].pc = "failed" THEN bookRejects(k[1])
     ELSE UNCHANGED <<bookPc, convertPc>>
  /\ UNCHANGED <<convertFrame, batchNo, chapterBatchNo, footnoteRequests,
                 results, allBooks, files, masterIndex>>

\* await this.fileWriter.writeChapter(chapter, markdown) resolves.  When it
\* was the last of its batch and the call still runs, Promise.all resolves,
\* results.push(...batchResults), and the next batch starts or the call
\* returns
WriteChapterResolved(k) ==
  /\ chapterTask[k].pc = "writing"
  /\ files' = files \cup {chapterPath(config, k)}
  /\ LET b     == k[1]
         tasks == [chapterTask EXCEPT ![k].pc = "done"]
         batch == chapterBatches(config, b)[chapterBatchNo[b]]
     IN  IF bookPc[b] = "chapters"
            /\ \A c \in Elements(batch) : tasks[<<b, c>>].pc = "done"
         THEN LET r == atChapterBatch(config, b, tasks, chapterBatchNo[b] + 1)
              IN  /\ chapterTask' = r.tasks
                  /\ footnoteRequests' = footnoteRequests \cup r.requests
                  /\ bookPc' = [bookPc EXCEPT ![b] = r.bookPc]
                  /\ chapterBatchNo' = [chapterBatchNo EXCEPT ![b] = @ + 1]
                  /\ results' = [results EXCEPT ![b] = @ \o batch]
         ELSE /\ chapterTask' = tasks
              /\ UNCHANGED <<footnoteRequests, bookPc, chapterBatchNo, results>>
  /\ UNCHANGED <<convertFrame, convertPc, batchNo, allBooks, masterIndex, errors>>

\* await this.fileWriter.writeChapter(chapter, markdown) rejects:
\* Promise.all(chapterPromises) rejects, and with it the task of the book
WriteChapterRejected(k) ==
  /\ chapterTask[k].pc = "writing"
  /\ chapterTask' = [chapterTask EXCEPT ![k].pc = "failed"]
  /\ bookRejects(k[1])
  /\ errors' = errors \cup {<<"write", chapterPath(config, k)>>}
  /\ UNCHANGED <<convertFrame, batchNo, chapterBatchNo, footnoteRequests,
                 results, allBooks, files, masterIndex>>

\* await this.fileWriter.writeBookIndex(...) resolves and the task of book b
\* returns.  When it was the last of its batch and convert() still waits,
\* Promise.all resolves, allBooks.push(...completedBooks), and the next
\* batch starts or the master index is generated and its write begins
WriteBookIndexResolved(b) ==
  /\ bookPc[b] = "index"
  /\ files' = files \cup {bookIndexPath(config, b)}
  /\ LET pcs   == [bookPc EXCEPT ![b] = "done"]
         batch == bookBatches(config)[batchNo]
     IN  IF convertPc = "books" /\ \A c \in Elements(batch) : pcs[c] = "done"
         THEN LET r == atBookBatch(config, pcs, batchNo + 1)
              IN  /\ bookPc' = r.bookPc
                  /\ convertPc' = r.convertPc
                  /\ batchNo' = batchNo + 1
                  /\ allBooks' = allBooks
                       \o promiseAll(batch, [c \in BookIds |->
                                               completedBook(c, results[c])])
         ELSE /\ bookPc' = pcs
              /\ UNCHANGED <<convertPc, batchNo, allBooks>>
  /\ UNCHANGED <<convertFrame, chapterBatchNo, chapterTask, footnoteRequests,
                 results, masterIndex, errors>>

\* await this.fileWriter.writeBookIndex(...) rejects
WriteBookIndexRejected(b) ==
  /\ bookPc[b] = "index"
  /\ bookRejects(b)
  /\ errors' = errors \cup {<<"write", bookIndexPath(config, b)>>}
  /\ UNCHANGED <<convertFrame, batchNo, chapterBatchNo, chapterTask,
                 footnoteRequests, results, allBooks, files, masterIndex>>

\* await this.fileWriter.writeMasterIndex(masterIndex) resolves; the write
\* of the README begins
WriteMasterIndexResolved ==
  /\ convertPc = "master"
  /\ files' = files \cup {masterIndexPath(config)}
  /\ masterIndex' = generateMasterIndex(allBooks)
  /\ convertPc' = "readme"
  /\ UNCHANGED <<convertFrame, batchNo, bookPc, chapterBatchNo, chapterTask,
                 footnoteRequests, results, allBooks, errors>>

\* await this.fileWriter.writeMasterIndex(masterIndex) rejects
WriteMasterIndexRejected ==
  /\ convertPc = "master"
  /\ convertPc' = "rejected"
  /\ errors' = errors \cup {<<"write", masterIndexPath(config)>>}
  /\ UNCHANGED <<convertFrame, batchNo, bookPc, chapterBatchNo, chapterTask,
                 footnoteRequests, results, allBooks, files, masterIndex>>

\* await this.fileWriter.writeReadme() resolves; getFileStats begins
WriteReadmeResolved ==
  /\ convertPc = "readme"
  /\ files' = files \cup {readmePath(config)}
  /\ convertPc' = "stats"
  /\ UNCHANGED <<convertFrame, batchNo, bookPc, chapterBatchNo, chapterTask,
                 footnoteRequests, results, allBooks, masterIndex, errors>>

\* await this.fileWriter.writeReadme() rejects
WriteReadmeRejected ==
  /\ convertPc = "readme"
  /\ convertPc' = "rejected"
  /\ errors' = errors \cup {<<"write", readmePath(config)>>}
  /\ UNCHANGED <<convertFrame, batchNo, bookPc, chapterBatchNo, chapterTask,
                 footnoteRequests, results, allBooks, files, masterIndex>>

\* await this.fileWriter.getFileStats() resolves and convert() returns
GetFileStatsResolved ==
  /\ convertPc = "stats"
  /\ convertPc' = "resolved"
  /\ UNCHANGED <<convertFrame, batchNo, bookPc, chapterBatchNo, chapterTask,
                 footnoteRequests, results, allBooks, files, masterIndex, errors>>

\* await this.fileWriter.getFileStats() rejects
GetFileStatsRejected ==
  /\ convertPc = "stats"
  /\ convertPc' = "rejected"
  /\ errors' = errors \cup {<<"getFileStats", config.version>>}
  /\ UNCHANGED <<convertFrame, batchNo, bookPc, chapterBatchNo, chapterTask,
                 footnoteRequests, results, allBooks, files, masterIndex>>

NextConvert ==
  \/ InitializeResolved
  \/ InitializeRejected
  \/ \E b \in BookIds : FetchBookChaptersResolved(b)
  \/ \E b \in BookIds : FetchBookChaptersRejected(b)
  \/ \E k \in ChapterIds : FetchFootnotesResolved(k)
  \/ \E k \in ChapterIds : ParseFootnotesThrows(k)
  \/ \E k \in ChapterIds : FetchFootnotesRejected(k)
  \/ \E k \in ChapterIds : WriteChapterResolved(k)
  \/ \E k \in ChapterIds : WriteChapterRejected(k)
  \/ \E b \in BookIds : WriteBookIndexResolved(b)
  \/ \E b \in BookIds : WriteBookIndexRejected(b)
  \/ WriteMasterIndexResolved
  \/ WriteMasterIndexRejected
  \/ WriteReadmeResolved
  \/ WriteReadmeRejected
  \/ GetFileStatsResolved
  \/ GetFileStatsRejected

SpecConvert == InitConvert /\ [][NextConvert]_vars

(***************************************************************************)
(* fetchBookChapters(book, totalChapters, version, batchSize): the         *)
(* requests it issues and what its promise resolves with.  A request        *)
(* settles in a step of its own, in any order.                             *)
(***************************************************************************)

\* Most chapters of a book and the largest batch size of a call
MaxChapters == 4

MaxBatchSize == 2

\* Array.from({ length: Math.min(batchSize, totalChapters - i + 1) },
\*            (_, idx) => i + idx)
chapterBatch(i, totalChapters, batchSize) ==
  LET length == IF batchSize <= totalChapters - i + 1 THEN batchSize
                ELSE totalChapters - i + 1
  IN  [idx \in 1..length |-> i + idx - 1]

RECURSIVE fetchBatchesFrom(_, _, _)
\* for (let i = 1; i <= totalChapters; i += batchSize) { ... push ... }: the
\* chapter lists of the requests from i on, in the order issued
fetchBatchesFrom(i, totalChapters, batchSize) ==
  IF i > totalChapters THEN <<>>
  ELSE <<chapterBatch(i, totalChapters, batchSize)>>
       \o fetchBatchesFrom(i + batchSize, totalChapters, batchSize)

\* this.fetchChapters(book, chapterBatch, version) up to its await: the
\* request is out, its promise pending
fetchChapters(chapters) == [chapters |-> chapters, state |-> "pending", settled |-> 0]

\* response.data of a request: the text of the chapters asked for
responseData(promise) == [chapters |-> promise.chapters]

\* How many of the promises have settled
settledCount(promises) ==
  Cardinality({i \in 1..Len(promises) : promises[i].state /= "pending"})

\* Mutant of promiseAllValues: the values in the order the promises settled
promiseAllSettled(promises) ==
  [n \in 1..Len(promises) |->
     responseData(promises[CHOOSE i \in 1..Len(promises) : promises[i].settled = n])]

\* What Promise.all(batchPromises) resolves with: the values in the order
\* of the promises
promiseAllValues(promises) == [i \in 1..Len(promises) |-> responseData(promises[i])]

FetchCalls ==
  {[totalChapters |-> t, batchSize |-> n] : t \in 0..MaxChapters, n \in 1..MaxBatchSize}

\* bibleApi.fetchBookChapters(book, totalChapters, version, batchSize) is
\* called
InitFetch ==
  /\ IdleJobs
  /\ IdleHelpers
  /\ IdleConvert
  /\ fetchCall \in FetchCalls
  /\ fetchPc = "called"
  /\ batchPromises = <<>>
  /\ responses = <<>>

\* What no step of the call changes
fetchFrame == <<jobVars, helperVars, convertVars, fetchCall>>

\* The body of fetchBookChapters: every request is issued; Promise.all of
\* no promise resolves at once
FetchBookChapters ==
  /\ fetchPc = "called"
  /\ LET batches == fetchBatchesFrom(1, fetchCall.totalChapters, fetchCall.batchSize)
     IN  /\ batchPromises' = [i \in 1..Len(batches) |-> fetchChapters(batches[i])]
         /\ fetchPc' = IF Len(batches) = 0 THEN "resolved" ELSE "pending"
  /\ responses' = <<>>
  /\ UNCHANGED fetchFrame

\* const response = await this.client.get(url); return response.data, for
\* request i.  When it was the last and none has failed, Promise.all
\* resolves
FetchChaptersResolved(i) ==
  /\ i \in 1..Len(batchPromises)
  /\ batchPromises[i].state = "pending"
  /\ batchPromises' = [batchPromises EXCEPT
                         ![i].state = "fulfilled",
                         ![i].settled = settledCount(batchPromises) + 1]
  /\ IF fetchPc = "pending"
        /\ \A j \in 1..Len(batchPromises) : batchPromises'[j].state = "fulfilled"
     THEN /\ fetchPc' = "resolved"
          /\ responses' = promiseAllValues(batchPromises')
     ELSE UNCHANGED <<fetchPc, responses>>
  /\ UNCHANGED fetchFrame

\* catch (error) { throw ... } for request i: Promise.all rejects with the
\* first promise that does
FetchChaptersRejected(i) ==
  /\ i \in 1..Len(batchPromises)
  /\ batchPromises[i].state = "pending"
  /\ batchPromises' = [batchPromises EXCEPT
                         ![i].state = "rejected",
                         ![i].settled = settledCount(batchPromises) + 1]
  /\ fetchPc' = "rejected"
  /\ UNCHANGED <<fetchFrame, responses>>

NextFetch ==
  \/ FetchBookChapters
  \/ \E i \in 1..MaxChapters : FetchChaptersResolved(i)
  \/ \E i \in 1..MaxChapters : FetchChaptersRejected(i)

SpecFetch == InitFetch /\ [][NextFetch]_vars

(***************************************************************************)
(* Vocabulary of the properties                                            *)
(***************************************************************************)

\* w's processFootnoteContent has returned
Done(w) == pc[w] = "done"

\* w's parseFootnotes has returned
Parsed(w) == pc[w] = "parsed"

\* The originating-book hint of w's call ("" for null)
Hint(w) == extractBookFromFootnote(arg[w].given)

RECURSIVE CountFrom(_, _, _)
CountFrom(s, p, i) ==
  LET k == IndexOfFrom(s, p, i)
  IN  IF k < 0 THEN 0 ELSE 1 + CountFrom(s, p, k + 1)

\* Number of places of s where p stands
CountOf(s, p) == CountFrom(s, p, 0)

\* Position i of s lies inside a link: a "[[" before it is still open
InsideLink(s, i) ==
  LastIndexOf(Substring(s, 0, i), "[[") > LastIndexOf(Substring(s, 0, i), "]]")

\* Every link of s is closed before the next one opens
LinksDisjoint(s) ==
  \A i \in 0..Len(s) :
    StartsWithAt(s, "[[", i) =>
      LET close == IndexOfFrom(s, "]]", i + 2)
          open  == IndexOfFrom(s, "[[", i + 2)
      IN  close >= 0 /\ (open < 0 \/ close < open)

(***************************************************************************)
(* C1  No link of the returned string lies inside or overlaps another      *)
(*     link: step 3 skips an occurrence that intersects text an earlier    *)
(*     substitution of the call (step 3 or step 1) turned into a link.     *)
(***************************************************************************)
C1_NoOverlappingLinks ==
  \A w \in Workers : Done(w) => LinksDisjoint(returned[w])

(***************************************************************************)
(* C2  With the references "3:16" and "John 3:16", in either order, and a  *)
(*     content whose one citation is the phrase "John 3:16", the result    *)
(*     holds exactly one link, labelled "John 3:16", and none labelled     *)
(*     "3:16".                                                             *)
(***************************************************************************)
IsPhraseCase(w) ==
  /\ arg[w].given.defined
  /\ arg[w].given.verseReferences \in {<<rJohn, rShort>>, <<rShort, rJohn>>}
  /\ CountOf(arg[w].content, "John 3:16") = 1
  /\ CountOf(arg[w].content, ":") = 1
  /\ LET at == IndexOf(arg[w].content, "John 3:16")
     IN  IsWordBoundary(arg[w].content, at) /\ IsWordBoundary(arg[w].content, at + 9)

C2_LongestFirst ==
  \A w \in Workers :
    Done(w) /\ IsPhraseCase(w) =>
      /\ CountOf(returned[w], "[[") = 1
      /\ CountOf(returned[w], "[[John 3#16|John 3:16]]") = 1
      /\ CountOf(returned[w], "|3:16]]") = 0

C2_Witness ==
  /\ Done("w1") /\ IsPhraseCase("w1")
  /\ arg["w1"].given.verseReferences = <<rShort, rJohn>>
  /\ returned["w1"] = "see [[John 3#16|John 3:16]]"

(***************************************************************************)
(* C3  A content whose only citations are N well-formed explicit tags      *)
(*     comes back with exactly N links, one [[expand(code) c#v|label]] per *)
(*     tag, and no tag markup, with references empty and with references   *)
(*     the list the parser extracts from the same tags.                    *)
(***************************************************************************)
RECURSIVE withoutDataTagsFrom(_, _)
withoutDataTagsFrom(s, i) ==
  IF i >= Len(s) THEN ""
  ELSE LET t == DataTagAt(s, i)
       IN  IF t.ok THEN withoutDataTagsFrom(s, t.end)
           ELSE CharAt(s, i) \o withoutDataTagsFrom(s, i + 1)

\* The tags of the content are all well formed and nothing else cites
OnlyWellFormedTags(content) ==
  /\ Len(dataRefReferences(content)) = CountOf(content, DataOpen)
  /\ CountOf(withoutDataTagsFrom(content, 0), ":") = 0
  /\ CountOf(withoutDataTagsFrom(content, 0), "<") = 0

IsTagCase(w) ==
  /\ OnlyWellFormedTags(arg[w].content)
  /\ \/ arg[w].given.verseReferences = <<>>
     \/ arg[w].given.verseReferences = dataRefReferences(arg[w].content)

C3_TagsBecomeLinks ==
  \A w \in Workers :
    Done(w) /\ IsTagCase(w) =>
      LET tags == dataRefReferences(arg[w].content)
      IN  /\ CountOf(returned[w], "[[") = Len(tags)
          /\ \A i \in 1..Len(tags) : CountOf(returned[w], wikiLink(tags[i])) >= 1
          /\ CountOf(returned[w], "<") = 0
          /\ CountOf(returned[w], ">") = 0

(***************************************************************************)
(* C4  With a hint, every bare chapter:verse(-endVerse) token that stands  *)
(*     outside the links of steps 1-3 becomes [[hint c#v|token]], each     *)
(*     occurrence by its own position.                                     *)
(***************************************************************************)
\* A chapter:verse(-endVerse) token stands at p of s, between word
\* boundaries and not continuing a longer number group
TokenAt(s, p) ==
  LET c == DigitsEnd(s, p)
      v == DigitsEnd(s, c + 1)
      e == DigitsEnd(s, v + 1)
      head  == /\ IsWordBoundary(s, p) /\ CharAt(s, p - 1) \notin {"#", ":"}
               /\ c > p /\ CharAt(s, c) = ":" /\ v > c + 1
      range == head /\ CharAt(s, v) = "-" /\ e > v + 1 /\ IsWordBoundary(s, e)
      plain == head /\ IsWordBoundary(s, v)
  IN  [ok |-> range \/ plain,
       end |-> IF range THEN e ELSE v,
       chapter |-> Substring(s, p, c),
       verse |-> Substring(s, c + 1, v)]

\* The token at p directly follows a book word: a capitalised word and a space
FollowsBookWord(s, p) ==
  /\ CharAt(s, p - 1) = " "
  /\ IsLetter(CharAt(s, p - 2))
  /\ \E a \in 0..(p - 2) :
       /\ \A k \in a..(p - 2) : IsLetter(CharAt(s, k))
       /\ ~IsLetter(CharAt(s, a - 1))
       /\ CharAt(s, a) \in {"A", "B", "C", "D", "E", "F", "G", "H", "I", "J",
                            "K", "L", "M", "N", "O", "P", "Q", "R", "S", "T",
                            "U", "V", "W", "X", "Y", "Z"}

\* The places of s where a shorthand citation stands outside every link
ShorthandPlaces(s) ==
  {p \in 0..Len(s) : TokenAt(s, p).ok /\ ~InsideLink(s, p) /\ ~FollowsBookWord(s, p)}

ShorthandLink(s, p, hint) ==
  "[[" \o hint \o " " \o TokenAt(s, p).chapter \o "#" \o TokenAt(s, p).verse
       \o "|" \o Substring(s, p, TokenAt(s, p).end) \o "]]"

C4_EveryShorthandLinked ==
  \A w \in Workers :
    Done(w) /\ Hint(w) /= "" =>
      /\ \A p \in ShorthandPlaces(linked[w]) :
           CountOf(returned[w], ShorthandLink(linked[w], p, Hint(w))) >= 1
      /\ CountOf(returned[w], "[[") >=
           CountOf(linked[w], "[[") + Cardinality(ShorthandPlaces(linked[w]))

(***************************************************************************)
(* C5  Without a hint the shorthand pass changes nothing: the call returns *)
(*     the text step 3 left, its bare tokens still literal.                *)
(***************************************************************************)
C5_NoHintNoOp ==
  \A w \in Workers :
    Done(w) /\ Hint(w) = "" =>
      /\ returned[w] = linked[w]
      /\ CountOf(returned[w], "[[") = CountOf(linked[w], "[[")

C5_Witness ==
  /\ Done("w1")
  /\ arg["w1"].given.defined /\ arg["w1"].given.id = "note_1"
  /\ ShorthandPlaces(linked["w1"]) /= {}
  /\ returned["w1"] = "see 1:4"

(***************************************************************************)
(* C6  The shorthand pass leaves alone a token that directly follows a     *)
(*     book word and that step 3 left unlinked ("5:3" in "Matt 5:3"): no   *)
(*     link against the originating book appears behind a book word.       *)
(***************************************************************************)
\* Number of links of s that directly follow a book word
LinksAfterBookWord(s) ==
  Cardinality({q \in 0..Len(s) : StartsWithAt(s, "[[", q) /\ FollowsBookWord(s, q)})

C6_BookedTokenNotShorthand ==
  \A w \in Workers :
    Done(w) => LinksAfterBookWord(returned[w]) = LinksAfterBookWord(linked[w])

(***************************************************************************)
(* C7  In the shorthand pass a token of verse 0 is linked to the chapter,  *)
(*     [[hint chapter|token]], without a verse anchor.                     *)
(***************************************************************************)
C7_VerseZeroLinksChapter ==
  \A w \in Workers :
    Done(w) /\ Hint(w) /= "" =>
      \A p \in ShorthandPlaces(linked[w]) :
        parseInt(TokenAt(linked[w], p).verse).value = 0 =>
          /\ CountOf(returned[w], ShorthandLink(linked[w], p, Hint(w))) = 0
          /\ CountOf(returned[w],
                     "[[" \o Hint(w) \o " " \o TokenAt(linked[w], p).chapter \o "|"
                          \o Substring(linked[w], p, TokenAt(linked[w], p).end)
                          \o "]]") >= 1

(***************************************************************************)
(* C8  Every call returns: no pattern fails to compile, and no pass of the *)
(*     while loop of step 3 leaves the loop where it was (the working      *)
(*     text and lastIndex both unchanged), which would repeat forever.     *)
(***************************************************************************)
C8_AlwaysReturns ==
  [][\A w \in Workers :
       /\ pc[w] = "link" =>
            PatternCompiles(escapeRegExp(sortedRefs[w][refIndex[w]].display), 0)
       /\ (pc[w] = "link" /\ execCount'[w] = execCount[w] + 1) =>
            (processed'[w] /= processed[w] \/ lastIndex'[w] /= lastIndex[w])]_vars

(***************************************************************************)
(* C9  The call is pure: it leaves the footnote it was given (content, the *)
(*     order of the references, every field of every reference) as it was, *)
(*     and two calls with equal arguments return equal strings.            *)
(***************************************************************************)
C9_Pure ==
  /\ \A w \in Workers :
       arg[w].footnote /= "undefined" => footnotes[arg[w].footnote] = arg[w].given
  /\ \A v, w \in Workers :
       (Done(v) /\ Done(w) /\ arg[v].content = arg[w].content
          /\ arg[v].given = arg[w].given) => returned[v] = returned[w]

C9_Witness ==
  /\ Done("w1") /\ Done("w2")
  /\ arg["w1"].footnote = arg["w2"].footnote
  /\ arg["w1"].given.verseReferences = <<rShort, rJohn>>
  /\ sortedRefs["w1"] = <<rJohn, rShort>>
  /\ footnotes[arg["w1"].footnote].verseReferences = <<rShort, rJohn>>
  /\ returned["w1"] = returned["w2"]
  /\ returned["w1"] /= arg["w1"].content

(***************************************************************************)
(* C10 Calls share no mutable state: however the steps of several calls    *)
(*     interleave, each call returns what it returns when it runs alone.   *)
(***************************************************************************)
C10_Isolated ==
  \A w \in Workers :
    /\ Done(w) =>
         /\ processFootnoteContent(arg[w].content, arg[w].given).returns
         /\ returned[w] = processFootnoteContent(arg[w].content, arg[w].given).value
    /\ Parsed(w) => returnedFootnotes[w] = parseFootnotes(arg[w].html)

C10_Witness ==
  /\ Done("w1")
  /\ pc["w2"] = "link"
  /\ linkedRanges["w1"] /= <<>>
  /\ linkedRanges["w2"] /= <<>>
  /\ linkedRanges["w1"] /= linkedRanges["w2"]
  /\ arg["w1"].footnote /= arg["w2"].footnote

(***************************************************************************)
(* Vocabulary of the parser properties                                     *)
(***************************************************************************)

\* The text of the marker element of a note block, trimmed
MarkerText(note) == trim(textOf(findClass(note, "noteNoteSuper")))

\* A number can be read from the marker of the note block
HasParseableNumber(note) ==
  MarkerText(note) /= "" /\ ~parseInt(MarkerText(note)).isNaN

\* The text of a note block outside its <sup> and type-label elements
ContentText(note) == textOf(removeClass(removeTag(note, "sup"), "notetype"))

\* That text holds more than whitespace
HasContent(note) ==
  \E i \in 0..(Len(ContentText(note)) - 1) : ~IsSpace(CharAt(ContentText(note), i))

\* The note blocks of the page w's parseFootnotes was given
NotesOf(w) == {arg[w].html[i] : i \in 1..Len(arg[w].html)}

(***************************************************************************)
(* C11 parseFootnotes returns at most one footnote per note block, and as  *)
(*     many footnotes as note blocks if and only if every block has a      *)
(*     parseable number.                                                   *)
(***************************************************************************)
C11_LengthIffNumbers ==
  \A w \in Workers :
    Parsed(w) =>
      /\ Len(returnedFootnotes[w]) <= Len(arg[w].html)
      /\ (Len(returnedFootnotes[w]) = Len(arg[w].html))
           <=> (\A note \in NotesOf(w) : HasParseableNumber(note))

\* C11 as amended: as many footnotes as note blocks if and only if every
\* block has a parseable number and a content that is not empty
C11_LengthIffNumbersAndContent ==
  \A w \in Workers :
    Parsed(w) =>
      /\ Len(returnedFootnotes[w]) <= Len(arg[w].html)
      /\ (Len(returnedFootnotes[w]) = Len(arg[w].html))
           <=> (\A note \in NotesOf(w) : HasParseableNumber(note) /\ HasContent(note))

C11_Witness ==
  /\ Parsed("w1")
  /\ arg["w1"].html = <<nTagged, nEmpty>>
  /\ Len(returnedFootnotes["w1"]) = 1
  /\ returnedFootnotes["w1"][1].number = 1

(***************************************************************************)
(* C12 The footnotes come in the document order of their note blocks; a    *)
(*     block whose marker is missing or gives no number leaves nothing, no *)
(*     placeholder either, and the footnote of every other block is what   *)
(*     the block gives when it is the only one of its page.                *)
(***************************************************************************)
RECURSIVE KeptFrom(_, _)
\* The places from i on of the blocks of a page that have a parseable
\* number and a content, in document order
KeptFrom(html, i) ==
  IF i > Len(html) THEN <<>>
  ELSE (IF HasParseableNumber(html[i]) /\ HasContent(html[i]) THEN <<i>> ELSE <<>>)
       \o KeptFrom(html, i + 1)

C12_DocumentOrder ==
  \A w \in Workers :
    Parsed(w) =>
      LET kept == KeptFrom(arg[w].html, 1)
      IN  /\ Len(returnedFootnotes[w]) = Len(kept)
          /\ \A k \in 1..Len(kept) :
               /\ <<returnedFootnotes[w][k]>> = parseFootnotes(<<arg[w].html[kept[k]]>>)
               /\ returnedFootnotes[w][k].number
                    = parseInt(MarkerText(arg[w].html[kept[k]])).value
               /\ returnedFootnotes[w][k].content
                    = trim(collapseWhitespace(ContentText(arg[w].html[kept[k]])))
          /\ \A i \in 1..Len(arg[w].html) :
               (MarkerText(arg[w].html[i]) = "" \/ parseInt(MarkerText(arg[w].html[i])).isNaN)
                 => \A k \in 1..Len(kept) : kept[k] /= i

C12_Witness ==
  /\ Parsed("w1")
  /\ arg["w1"].html = <<nPlain, nWord, nTagged>>
  /\ Len(returnedFootnotes["w1"]) = 2
  /\ returnedFootnotes["w1"][1].number = 2
  /\ returnedFootnotes["w1"][2].number = 1

(***************************************************************************)
(* C13 Every footnote returned has a number that is a non-negative integer *)
(*     read from a marker text that is wholly a base-10 integer, and a     *)
(*     content that is not empty after trimming.                           *)
(***************************************************************************)
\* t is one or more decimal digits and nothing else
IsWhollyDigits(t) == Len(t) > 0 /\ DigitsEnd(t, 0) = Len(t)

C13_NumberWhollyDecimal ==
  \A w \in Workers :
    Parsed(w) =>
      LET kept == KeptFrom(arg[w].html, 1)
      IN  \A k \in 1..Len(returnedFootnotes[w]) :
            /\ returnedFootnotes[w][k].number >= 0
            /\ trim(returnedFootnotes[w][k].content) /= ""
            /\ k <= Len(kept) => IsWhollyDigits(MarkerText(arg[w].html[kept[k]]))

(***************************************************************************)
(* C14 The references of a footnote come from one strategy: those of a     *)
(*     note that holds an explicit citation tag all come from its tags,    *)
(*     the text patterns not being run; only a note with no explicit tag   *)
(*     takes them from the text patterns.                                  *)
(***************************************************************************)
\* The note block holds an explicit citation tag
HasExplicitTag(note) == \E i \in 1..Len(note) : note[i].tag = "data"

\* The explicit tags of a note block whose reference fits the grammar
GoodTags(note) ==
  {i \in 1..Len(note) :
     /\ note[i].tag = "data"
     /\ refMatch(SubstringFrom(note[i].ref, Len("Bible:"))).ok}

\* The displays of a list of references
Displays(refs) == {refs[i].display : i \in 1..Len(refs)}

C14_OneStrategyByTags ==
  \A w \in Workers :
    Parsed(w) =>
      LET kept == KeptFrom(arg[w].html, 1)
      IN  \A k \in 1..Len(kept) :
            LET note == arg[w].html[kept[k]]
                refs == returnedFootnotes[w][k].verseReferences
            IN  IF HasExplicitTag(note)
                THEN /\ refs = dataRefReferences(htmlOf(note))
                     /\ Len(refs) = Cardinality(GoodTags(note))
                ELSE refs = findBibleReferences(textOf(note))

BookPart(display) == trim(Substring(display, 0, LastIndexOf(display, " ")))

\* The reference of a tag: the attribute value without its Bible: prefix
TagRef(node) == SubstringFrom(node.ref, Len("Bible:"))

C16_CanonicalOnlyOnFallback ==
  \A w \in Workers :
    Parsed(w) =>
      LET kept == KeptFrom(arg[w].html, 1)
      IN  \A k \in 1..Len(kept) :
            LET note == arg[w].html[kept[k]]
                refs == returnedFootnotes[w][k].verseReferences
            IN  /\ Len(dataRefReferences(htmlOf(note))) = 0 =>
                     \A i \in 1..Len(refs) :
                       /\ refs[i].book \in validBooks
                       /\ refs[i].book = expandBookName(BookPart(refs[i].display))
                /\ \A i \in 1..Len(note) :
                     (note[i].tag = "data" /\ refMatch(TagRef(note[i])).ok) =>
                       \E j \in 1..Len(refs) :
                         /\ refs[j].book
                              = expandBookName(refMatch(TagRef(note[i])).bookCode)
                         /\ refs[j].chapter
                              = parseInt(refMatch(TagRef(note[i])).chapterNum).value

C16_Witness ==
  /\ Parsed("w1")
  /\ arg["w1"].html = <<nUnknownTag, nUnknownText>>
  /\ returnedFootnotes["w1"][1].verseReferences
       = <<[book |-> "Xy", chapter |-> 1, verse |-> 2, display |-> "Xy 1:2"]>>
  /\ returnedFootnotes["w1"][2].content = "Xy 1:2"
  /\ returnedFootnotes["w1"][2].verseReferences = <<>>

(***************************************************************************)
(* C17 The references of a footnote are listed left to right by the place  *)
(*     of their citation in the note, one record per cited span: their     *)
(*     displays lie in the note's text in list order, none overlapping     *)
(*     the one before it.                                                  *)
(***************************************************************************)
RECURSIVE SpansInOrder(_, _, _, _)
\* refs[i..] can be laid on text from offset from on, each display at or
\* after the end of the previous one (the leftmost placement leaves the
\* most room, so it decides)
SpansInOrder(text, refs, i, from) ==
  IF i > Len(refs) THEN TRUE
  ELSE LET k == IndexOfFrom(text, refs[i].display, from)
       IN  k >= 0 /\ SpansInOrder(text, refs, i + 1, k + Len(refs[i].display))

C17_OrderedOnePerSpan ==
  \A w \in Workers :
    Parsed(w) =>
      LET kept == KeptFrom(arg[w].html, 1)
      IN  \A k \in 1..Len(kept) :
            SpansInOrder(textOf(arg[w].html[kept[k]]),
                         returnedFootnotes[w][k].verseReferences, 1, 0)

(***************************************************************************)
(* C18 expand(code), in the parser's copy and in the generator's, gives    *)
(*     the canonical name of a known abbreviation and the code itself for  *)
(*     every other \w+ code, a name of a built-in object property          *)
(*     included: the book of every tag's reference, and of every link      *)
(*     step 1 writes, is that string.                                      *)
(***************************************************************************)
\* What the claim expects of expand
ExpectedBook(code) == IF code \in DOMAIN bookMap THEN bookMap[code] ELSE code

\* The explicit tags of a content string whose reference fits the grammar
ContentTags(s) ==
  {DataTagAt(s, k) :
     k \in {j \in 0..Len(s) : DataTagAt(s, j).ok /\ refMatch(DataTagAt(s, j).ref).ok}}

\* The link the claim expects step 1 to write for the tag t
ExpectedLink(t) ==
  "[[" \o ExpectedBook(refMatch(t.ref).bookCode) \o " " \o refMatch(t.ref).chapterNum
       \o "#" \o refMatch(t.ref).verse \o "|" \o t.display \o "]]"

C18_ExpandPassesThrough ==
  \A w \in Workers :
    /\ Parsed(w) =>
         LET kept == KeptFrom(arg[w].html, 1)
         IN  \A k \in 1..Len(kept) :
               LET note == arg[w].html[kept[k]]
                   refs == returnedFootnotes[w][k].verseReferences
               IN  \A i \in 1..Len(note) :
                     (note[i].tag = "data" /\ refMatch(TagRef(note[i])).ok) =>
                       \E j \in 1..Len(refs) :
                         /\ refs[j].chapter
                              = parseInt(refMatch(TagRef(note[i])).chapterNum).value
                         /\ refs[j].book
                              = ExpectedBook(refMatch(TagRef(note[i])).bookCode)
    /\ pc[w] = "strip" =>
         \A t \in ContentTags(arg[w].content) :
           IndexOf(processed[w], ExpectedLink(t)) >= 0

(***************************************************************************)
(* C19 Each explicit tag of a note by itself: a tag whose reference reads  *)
(*     code SPACE chapter:verse(-endVerse)? gives one reference, with      *)
(*     book = expand(code), the decimal values of chapter, verse and       *)
(*     endVerse (no endVerse when the tag has none) and the tag's inner    *)
(*     text as display; a tag that does not read so gives nothing and      *)
(*     leaves the references of the other tags as they are.                *)
(***************************************************************************)
RECURSIVE DecimalValue(_)
\* The number a string of decimal digits writes
DecimalValue(t) ==
  IF t = "" THEN 0
  ELSE 10 * DecimalValue(Substring(t, 0, Len(t) - 1))
       + DigitValue(CharAt(t, Len(t) - 1))

\* The reference the claim expects of one explicit tag, if any
TagReference(node) ==
  LET m == refMatch(TagRef(node))
      base == [book |-> expandBookName(m.bookCode),
               chapter |-> DecimalValue(m.chapterNum),
               verse |-> DecimalValue(m.verse), display |-> node.text]
  IN  IF node.tag /= "data" \/ ~m.ok THEN <<>>
      ELSE IF m.hasEnd THEN <<base @@ [endVerse |-> DecimalValue(m.endVerse)]>>
      ELSE <<base>>

RECURSIVE TagReferences(_)
\* The references the claim expects of the tags of a note, tag by tag
TagReferences(note) ==
  IF Len(note) = 0 THEN <<>>
  ELSE TagReference(note[1]) \o TagReferences(Tail(note))

C19_EachTagByItself ==
  \A w \in Workers :
    Parsed(w) =>
      LET kept == KeptFrom(arg[w].html, 1)
      IN  \A k \in 1..Len(kept) :
            TagReferences(arg[w].html[kept[k]]) /= <<>> =>
              returnedFootnotes[w][k].verseReferences
                = TagReferences(arg[w].html[kept[k]])

(***************************************************************************)
(* C20 In study style every verse reference a footnote carries stands as   *)
(*     the link [[book chapter#verse|display]] in the footnote's entry of  *)
(*     the chapter markdown, its display in the content or not, and the    *)
(*     entry ends with the link back to the verse.                         *)
(***************************************************************************)
\* w's footnote has its entry in the markdown
Written(w) == pc[w] = "written"

\* s ends with p
EndsWith(s, p) == Len(p) <= Len(s) /\ SubstringFrom(s, Len(s) - Len(p)) = p

C20_EveryReferenceLinkedInEntry ==
  \A w \in Workers :
    Written(w) =>
      /\ \A i \in 1..Len(footnoteOf(w).verseReferences) :
           LET ref == footnoteOf(w).verseReferences[i]
           IN  IndexOf(markdown[w],
                       "[[" \o ref.book \o " " \o NumToStr(ref.chapter) \o "#"
                            \o NumToStr(ref.verse) \o "|" \o ref.display \o "]]") >= 0
      /\ EndsWith(markdown[w], "|↑]]\n\n")

(***************************************************************************)
(* C21 A link built for a reference is [[book chapter#verse|display]] when *)
(*     the reference has a specific verse, the first verse also when it    *)
(*     is a range (never endVerse); generateVerseLink gives                *)
(*     [[book chapter|display]] when the verse is absent or 0; the label   *)
(*     is the display as it was given.                                     *)
(***************************************************************************)
HasSpecificVerse(ref) == "verse" \in DOMAIN ref /\ ref.verse >= 1

VerseTarget(ref) ==
  "[[" \o ref.book \o " " \o NumToStr(ref.chapter) \o "#" \o NumToStr(ref.verse)
       \o "|" \o ref.display \o "]]"

ChapterTarget(ref) ==
  "[[" \o ref.book \o " " \o NumToStr(ref.chapter) \o "|" \o ref.display \o "]]"

\* The content with the one place of the display replaced by link
WithLink(content, display, link) ==
  Substring(content, 0, IndexOf(content, display)) \o link
  \o SubstringFrom(content, IndexOf(content, display) + Len(display))

C21_LinkTargets ==
  callPc = "returned" =>
    /\ call.fn = "generateVerseLink" =>
         stringResult = IF HasSpecificVerse(call.ref) THEN VerseTarget(call.ref)
                        ELSE ChapterTarget(call.ref)
    /\ (call.fn = "processFootnoteContent"
          /\ HasSpecificVerse(call.footnote.verseReferences[1])) =>
         stringResult = WithLink(call.content,
                                 call.footnote.verseReferences[1].display,
                                 VerseTarget(call.footnote.verseReferences[1]))

\* The range of the test, Matt 5:3-5, linked to verse 3
C21_Witness ==
  /\ callPc = "returned"
  /\ call.fn = "generateVerseLink"
  /\ call.ref = [book |-> "Matthew", chapter |-> 5, verse |-> 3,
                 endVerse |-> 5, display |-> "Matt 5:3-5"]
  /\ stringResult = "[[Matthew 5#3|Matt 5:3-5]]"

(***************************************************************************)
(* C22 The footnotes are rendered only in study style and only for a       *)
(*     list that is not empty; each footnote then stands as                *)
(*     [^number]: **TYPE** linked-content, followed by the back reference  *)
(*     [[book chapter#N|↑]] when its id ends in the digits N and by        *)
(*     nothing when it ends in no digit.                                   *)
(***************************************************************************)
\* The digits an id ends in, "" when it ends in none
TrailingDigits(id) ==
  LET runs == {k \in 0..Len(id) :
                 \A i \in (Len(id) - k)..(Len(id) - 1) : IsDigit(CharAt(id, i))}
  IN  SubstringFrom(id, Len(id) - (CHOOSE k \in runs : \A j \in runs : j <= k))

TypeLabel == [sn |-> "SN", tn |-> "TN"]

\* The entry the claim describes for footnote f of the chapter
ExpectedEntry(f, chapter) ==
  "[^" \o NumToStr(f.number) \o "]: **" \o TypeLabel[f.type] \o "** "
  \o processFootnoteContent(f.content, f).value
  \o (IF TrailingDigits(f.id) = "" THEN ""
      ELSE " [[" \o chapter.book \o " " \o NumToStr(chapter.chapter) \o "#"
                 \o TrailingDigits(f.id) \o "|↑]]")
  \o "\n\n"

RECURSIVE ExpectedEntries(_, _)
ExpectedEntries(list, chapter) ==
  IF list = <<>> THEN ""
  ELSE ExpectedEntry(Head(list), chapter) \o ExpectedEntries(Tail(list), chapter)

C22_FootnotesRendered ==
  (callPc = "returned" /\ call.fn = "generateChapterMarkdown") =>
    IF call.style = "study" /\ Len(call.footnotes) > 0
    THEN IndexOf(stringResult,
                 "## Footnotes\n\n" \o ExpectedEntries(call.footnotes, call.chapter))
           >= 0
    ELSE /\ IndexOf(stringResult, "## Footnotes") < 0
         /\ IndexOf(stringResult, "]: **") < 0

\* The footnote of the test after one whose id ends in no digit
C22_Witness ==
  /\ callPc = "returned"
  /\ call.fn = "generateChapterMarkdown"
  /\ call.style = "study"
  /\ Len(call.footnotes) = 2
  /\ call.footnotes[1].id = "note_unknown"
  /\ call.footnotes[2].id = "note_John_3_16"
  /\ IndexOf(stringResult,
             "[^1]: **SN** Test footnote\n\n[^16]: **TN** Test footnote [[John 3#16|↑]]\n\n")
       >= 0

(***************************************************************************)
(* C23 deduplicateReferences keeps, of the references with one (book,      *)
(*     chapter, verse), the first and drops the later ones, keeps the      *)
(*     kept ones in their order, returns a list of distinct keys as it     *)
(*     is, and applied to its result returns that result.                  *)
(***************************************************************************)
\* The (book, chapter, verse) of a reference
KeyOf(ref) ==
  <<ref.book, ref.chapter, IF "verse" \in DOMAIN ref THEN ref.verse ELSE Absent>>

\* The places of the references no earlier reference shares the key of
FirstPlaces(refs) ==
  {i \in 1..Len(refs) : \A j \in 1..(i - 1) : KeyOf(refs[j]) /= KeyOf(refs[i])}

\* The i-th smallest element of a set of numbers
Nth(S, i) == CHOOSE n \in S : Cardinality({m \in S : m <= n}) = i

C23_FirstOfEachKey ==
  (callPc = "returned" /\ call.fn = "deduplicateReferences") =>
    /\ Len(listResult) = Cardinality(FirstPlaces(call.refs))
    /\ \A i \in 1..Len(listResult) :
         listResult[i] = call.refs[Nth(FirstPlaces(call.refs), i)]
    /\ FirstPlaces(call.refs) = 1..Len(call.refs) => listResult = call.refs
    /\ deduplicateReferences(listResult) = listResult

\* The test's list: the second John 3:16 goes, Matthew 5:3 stays behind the
\* first
C23_Witness ==
  /\ callPc = "returned"
  /\ call.fn = "deduplicateReferences"
  /\ Len(call.refs) = 3
  /\ call.refs[1].display = "John 3:16"
  /\ call.refs[2].display = "Jn 3:16"
  /\ call.refs[3].display = "Matt 5:3"
  /\ Len(listResult) = 2
  /\ listResult[1].display = "John 3:16"
  /\ listResult[2].display = "Matt 5:3"

(***************************************************************************)
(* C25: while step 3 runs, the claimed-range registry is exact             *)
(***************************************************************************)

\* The range lies on one link of the text: it starts at a "[[" and ends
\* just behind the first "]]" that follows
OnOneLink(text, range) ==
  /\ 0 <= range.start
  /\ range.end <= Len(text)
  /\ StartsWithAt(text, "[[", range.start)
  /\ IndexOfFrom(text, "]]", range.start) = range.end - 2

\* The ranges are pairwise disjoint and each lies on one link of the text
RegistryExact(text, ranges) ==
  /\ \A i \in 1..Len(ranges) : OnOneLink(text, ranges[i])
  /\ \A i, j \in 1..Len(ranges) :
       i < j => \/ ranges[i].end <= ranges[j].start
                \/ ranges[j].end <= ranges[i].start

\* C25: during step 3, after every substitution, the ranges of the registry
\* are pairwise disjoint and each starts at the "[[" and ends just behind the
\* "]]" of one link of the working text as it stands
C25_RegistryExact ==
  \A w \in Workers :
    pc[w] = "link" => RegistryExact(processed[w], linkedRanges[registryOf(w)])

(***************************************************************************)
(* C26: the content of a footnote is the text of its note block without    *)
(*      the marker and the type label, collapsed and trimmed               *)
(***************************************************************************)

\* The text of a note block outside its marker element and its type-label
\* element
TextOutsideMarkerAndType(note) ==
  textOf(removeClass(removeClass(note, "noteNoteSuper"), "notetype"))

\* No whitespace at either end, and no whitespace inside but single spaces
SingleSpaced(s) ==
  /\ \A i \in 0..(Len(s) - 1) : IsSpace(CharAt(s, i)) => CharAt(s, i) = " "
  /\ IndexOf(s, "  ") < 0
  /\ ~IsSpace(CharAt(s, 0))
  /\ ~IsSpace(CharAt(s, Len(s) - 1))

\* C26: the content of every footnote returned is the text of its note block
\* with the marker element and the type-label element removed, without
\* whitespace at its ends and with single spaces as its only whitespace
C26_ContentWithoutMarkerAndType ==
  \A w \in Workers :
    Parsed(w) =>
      LET kept == KeptFrom(arg[w].html, 1)
      IN  \A k \in 1..Len(returnedFootnotes[w]) :
            /\ SingleSpaced(returnedFootnotes[w][k].content)
            /\ k <= Len(kept) =>
                 returnedFootnotes[w][k].content
                   = trim(collapseWhitespace(
                       TextOutsideMarkerAndType(arg[w].html[kept[k]])))

(***************************************************************************)
(* Vocabulary of the converter properties                                  *)
(***************************************************************************)

\* The chapter has been rendered: generateChapterMarkdown has run for it
Rendered(k) == chapterTask[k].pc \in {"writing", "done"}
               \/ (chapterTask[k].pc = "failed" /\ chapterTask[k].footnotes /= "none")

(***************************************************************************)
(* C24: footnotes are requested only in study style, for NET, outside fast *)
(*      mode                                                               *)
(***************************************************************************)

\* C24: a footnote request is sent for a chapter only when the style is
\* study, the version NET and the speed mode not fast; in fast mode, in
\* simple or manual style and for NASB no request is ever sent and every
\* chapter rendered is rendered with the empty footnote list
C24_FootnotesOnlyStudyNetNotFast ==
  /\ footnoteRequests /= {} =>
       /\ config.style = "study"
       /\ config.version = "NET"
       /\ config.speedMode /= "fast"
  /\ (\/ config.speedMode = "fast"
      \/ config.style \in {"simple", "manual"}
      \/ config.version = "NASB") =>
       /\ footnoteRequests = {}
       /\ \A k \in ChapterIds :
            /\ chapterTask[k].pc /= "footnotes"
            /\ Rendered(k) => chapterTask[k].footnotes = "empty"

\* A study conversion of NET in fast mode has written Genesis 2 without a
\* footnote request
C24_Witness ==
  /\ config = [style |-> "study", version |-> "NET", speedMode |-> "fast"]
  /\ chapterTask[<<1, 2>>] = [pc |-> "done", footnotes |-> "empty"]
  /\ "NET/Genesis/Genesis 2.md" \in files
  /\ footnoteRequests = {}

(***************************************************************************)
(* C27: books and chapters run in batches of bounded size                  *)
(***************************************************************************)

\* The books whose task has started and not ended
BooksInProgress == {b \in BookIds : bookPc[b] \in {"fetching", "chapters", "index"}}

\* The chapters whose task has started and not ended
ChaptersInProgress ==
  {k \in ChapterIds : chapterTask[k].pc \in {"footnotes", "writing"}}

\* The batch of book b
BatchOf(b) ==
  CHOOSE j \in 1..Len(bookBatches(config)) : b \in Elements(bookBatches(config)[j])

\* C27: a book batch starts only after every book of the batch before it has
\* completed; at any moment at most BOOK_CONCURRENCY books are in progress
\* and at most CHAPTER_CONCURRENCY chapters are being processed
C27_BoundedBatches ==
  /\ \A a, b \in BookIds :
       (BatchOf(a) < BatchOf(b) /\ bookPc[b] /= "waiting") => bookPc[a] = "done"
  /\ Cardinality(BooksInProgress) <= BOOK_CONCURRENCY(speedModeOf(config))
  /\ Cardinality(ChaptersInProgress) <= CHAPTER_CONCURRENCY(speedModeOf(config))

(***************************************************************************)
(* C28: the requests of fetchBookChapters partition 1..totalChapters       *)
(***************************************************************************)

RECURSIVE Concat(_)
\* The lists of a list, one behind the other
Concat(lists) == IF Len(lists) = 0 THEN <<>> ELSE Head(lists) \o Concat(Tail(lists))

\* The chapter lists of the requests issued, in the order issued
Requested == [i \in 1..Len(batchPromises) |-> batchPromises[i].chapters]

\* C28: the chapter lists of the requests, one behind the other, are 1, 2,
\* ..., totalChapters (consecutive ascending runs, every chapter once); no
\* run is longer than batchSize and only the last may be shorter; no
\* request is issued for 0 chapters; the responses come in the order of
\* the requests, whatever order they completed in
C28_RequestsPartition ==
  fetchPc \in {"pending", "resolved", "rejected"} =>
    /\ Concat(Requested) = [c \in 1..fetchCall.totalChapters |-> c]
    /\ \A i \in 1..Len(Requested) :
         /\ Len(Requested[i]) >= 1
         /\ Len(Requested[i]) <= fetchCall.batchSize
         /\ i < Len(Requested) => Len(Requested[i]) = fetchCall.batchSize
    /\ fetchCall.totalChapters = 0 => Len(Requested) = 0
    /\ fetchPc = "resolved" =>
         /\ Len(responses) = Len(Requested)
         /\ \A i \in 1..Len(responses) : responses[i].chapters = Requested[i]

\* Three chapters in batches of two: the second response arrived first, and
\* the responses are those of 1-2 and of 3, in this order
C28_Witness ==
  /\ fetchCall = [totalChapters |-> 3, batchSize |-> 2]
  /\ fetchPc = "resolved"
  /\ Len(batchPromises) = 2
  /\ batchPromises[2].settled = 1
  /\ batchPromises[1].settled = 2
  /\ responses = <<[chapters |-> <<1, 2>>], [chapters |-> <<3>>]>>

(***************************************************************************)
(* C29: the master index comes last and lists the books in BIBLE_BOOKS     *)
(*      order                                                              *)
(***************************************************************************)

\* The task of every book has completed: its chapter files and its book
\* index are written
AllBooksComplete ==
  \A b \in BookIds :
    /\ bookPc[b] = "done"
    /\ bookIndexPath(config, b) \in files
    /\ \A c \in 1..BIBLE_BOOKS[b].chapters : chapterPath(config, <<b, c>>) \in files

\* The master index and the README are written only with every book
\* complete, and the master index lists the books of BIBLE_BOOKS in their
\* order
WrittenLastInOrder ==
  /\ (masterIndexPath(config) \in files \/ readmePath(config) \in files)
       => AllBooksComplete
  /\ masterIndexPath(config) \in files =>
       /\ Len(masterIndex) = Len(BIBLE_BOOKS)
       /\ \A b \in BookIds : masterIndex[b].name = BIBLE_BOOKS[b].name

\* C29: the master index and the README are written only after every book
\* has completed, the master index lists the books in BIBLE_BOOKS order, and
\* if any text fetch or file write fails, convert rejects and the master
\* index is never written
C29_MasterIndexLast ==
  /\ WrittenLastInOrder
  /\ (\E e \in errors : e[1] \in {"fetch", "write"}) =>
       /\ convertPc = "rejected"
       /\ masterIndexPath(config) \notin files

\* C29 as amended: the same, for every text fetch and for every file write
\* but that of the README, which follows the master index
C29_MasterIndexLastButReadme ==
  /\ WrittenLastInOrder
  /\ (\E e \in errors : e[1] \in {"fetch", "write"}) => convertPc = "rejected"
  /\ (\E e \in errors : e[1] \in {"fetch", "write"} /\ e[2] /= readmePath(config))
       => masterIndexPath(config) \notin files

\* A fast conversion, whose first batch holds Genesis and Obadiah, has
\* written the master index with the three books in order
C29_Witness ==
  /\ config.speedMode = "fast"
  /\ convertPc = "readme"
  /\ "NET/index.md" \in files
  /\ AllBooksComplete
  /\ Len(masterIndex) = 3
  /\ masterIndex[1].name = "Genesis"
  /\ masterIndex[2].name = "Obadiah"
  /\ masterIndex[3].name = "John"
  /\ errors = {}

(***************************************************************************)
(* C30: a footnote failure never fails the conversion                      *)
(***************************************************************************)

\* The footnote failures of chapter k
FootnoteErrors(k) ==
  {<<"fetchFootnotes", chapterPath(config, k)>>,
   <<"parseFootnotes", chapterPath(config, k)>>}

\* A chapter whose footnote fetch or footnote parsing has failed has been
\* rendered with the empty footnote list and its file is written or being
\* written (short of a failure of that write); no conversion is rejected by
\* footnote failures alone
FootnoteFailureSurvived ==
  /\ \A k \in ChapterIds :
       (FootnoteErrors(k) \cap errors /= {}) =>
         /\ chapterTask[k].footnotes = "empty"
         /\ chapterTask[k].pc \in {"writing", "done", "failed"}
         /\ (chapterTask[k].pc = "done") <=> (chapterPath(config, k) \in files)
         /\ (chapterTask[k].pc = "failed")
              => (<<"write", chapterPath(config, k)>> \in errors)
  /\ (convertPc = "rejected") =>
       (\E e \in errors : e[1] \notin {"fetchFootnotes", "parseFootnotes"})

\* The step in which a footnote failure arrives takes its chapter to the
\* write and changes no other chapter, no book and not the conversion
FootnoteFailureLocal ==
  \A k \in ChapterIds :
    (FootnoteErrors(k) \cap errors' /= FootnoteErrors(k) \cap errors) =>
      /\ chapterTask'[k] = [pc |-> "writing", footnotes |-> "empty"]
      /\ \A j \in ChapterIds \ {k} : chapterTask'[j] = chapterTask[j]
      /\ bookPc' = bookPc
      /\ convertPc' = convertPc
      /\ files' = files

\* C30: a failure of the footnote fetch or of the footnote parsing of a
\* chapter never fails the conversion: the chapter is still rendered, with
\* the empty footnote list, and its file written, and the other chapters of
\* the batch are unaffected
C30_FootnoteFailureContained ==
  []FootnoteFailureSurvived /\ [][FootnoteFailureLocal]_vars

\* The footnote request of Genesis 1 failed; Genesis 1 and Genesis 2, of the
\* same batch, are both written, Genesis 2 with its footnotes, and the
\* conversion has gone on to the end
C30_Witness ==
  /\ config = [style |-> "study", version |-> "NET", speedMode |-> "balanced"]
  /\ errors = {<<"fetchFootnotes", "NET/Genesis/Genesis 1.md">>}
  /\ chapterTask[<<1, 1>>] = [pc |-> "done", footnotes |-> "empty"]
  /\ chapterTask[<<1, 2>>] = [pc |-> "done", footnotes |-> "parsed"]
  /\ "NET/Genesis/Genesis 1.md" \in files
  /\ convertPc = "resolved"

====
